---- MODULE Spec2Model ----
(***************************************************************************)
(* Model of the persistence and trend core of journalist-agent:            *)
(*   agents/db.py             the Store (SQLite tables and their upserts)  *)
(*   agents/data_persister.py the Matcher and the Ingestor                 *)
(*   agents/collector.py      one ingestion run                            *)
(*   agents/trend_analyzer.py the Trend Engine                             *)
(*   agents/weekly_report.py  the Report Aggregator                        *)
(*   orchestrator.py, agents/scheduler.py  the briefing pipeline           *)
(*                                                                         *)
(* Tables are sequences of rows and a row's id is its position: the ids of *)
(* INTEGER PRIMARY KEY AUTOINCREMENT grow in insertion order and no table  *)
(* deletes.  SQLite skips an id when an upsert hits ON CONFLICT, so the    *)
(* position stands for the id up to an order-preserving renaming; ids are  *)
(* only ever compared with each other.                                     *)
(* Python strings are TLA+ strings; CharTable gives the characters of each *)
(* string the model uses, and every string function works on characters.   *)
(***************************************************************************)
EXTENDS Integers, Sequences, FiniteSets, TLC

\* Python None / SQL NULL in an integer position, and a dict key that is absent.
None == -1
\* Python None in a text position.
NoneStr == "<None>"

(***************************************************************************)
(* Strings                                                                 *)
(***************************************************************************)
CharTable ==
     ""                   :> << >>
  @@ "a/B"                :> <<"a","/","B">>
  @@ "a/b"                :> <<"a","/","b">>
  @@ "c/d"                :> <<"c","/","d">>
  @@ "github.com/a/B.git" :> <<"g","i","t","h","u","b",".","c","o","m","/","a","/","B",".","g","i","t">>
  @@ "github.com/a/b.git" :> <<"g","i","t","h","u","b",".","c","o","m","/","a","/","b",".","g","i","t">>
  @@ "github.com/c/d"     :> <<"g","i","t","h","u","b",".","c","o","m","/","c","/","d">>
  @@ "x.org"              :> <<"x",".","o","r","g">>
  @@ "try B"              :> <<"t","r","y"," ","B">>
  @@ "see c/d"            :> <<"s","e","e"," ","c","/","d">>
  @@ "T"                  :> <<"T">>

chars(s) == CharTable[s]

str(cs) == CHOOSE s \in DOMAIN CharTable : CharTable[s] = cs

UpperLetters == <<"A","B","C","D","E","F","G","H","I","J","K","L","M",
                  "N","O","P","Q","R","S","T","U","V","W","X","Y","Z">>
LowerLetters == <<"a","b","c","d","e","f","g","h","i","j","k","l","m",
                  "n","o","p","q","r","s","t","u","v","w","x","y","z">>
Digits == {"0","1","2","3","4","5","6","7","8","9"}

Range(f) == {f[i] : i \in DOMAIN f}

\* str.lower(), one character
lower_char(c) ==
  IF \E i \in DOMAIN UpperLetters : UpperLetters[i] = c
  THEN LowerLetters[CHOOSE i \in DOMAIN UpperLetters : UpperLetters[i] = c]
  ELSE c

\* str.lower()
lower(cs) == [i \in 1..Len(cs) |-> lower_char(cs[i])]

\* needle in hay
contains(hay, needle) ==
  \E p \in 0..(Len(hay) - Len(needle)) : SubSeq(hay, p + 1, p + Len(needle)) = needle

\* s.split("/")[-1]
last_segment(cs) ==
  LET slashes == {i \in 1..Len(cs) : cs[i] = "/"}
  IN  IF slashes = {} THEN cs
      ELSE SubSeq(cs, (CHOOSE i \in slashes : \A j \in slashes : j <= i) + 1, Len(cs))

ends_with(cs, suffix) ==
  Len(cs) >= Len(suffix) /\ SubSeq(cs, Len(cs) - Len(suffix) + 1, Len(cs)) = suffix

(***************************************************************************)
(* Matcher: extract_github_repo_from_url                                   *)
(***************************************************************************)
\* the character class [a-zA-Z0-9_.-]
RepoChars == Range(UpperLetters) \cup Range(LowerLetters) \cup Digits \cup {"_", ".", "-"}

\* the literal prefix github\.com/
HostPattern == <<"g","i","t","h","u","b",".","c","o","m","/">>

\* last index of the longest run of RepoChars that starts at p (p - 1 when empty)
RECURSIVE run_end(_, _)
run_end(cs, p) ==
  IF p <= Len(cs) /\ cs[p] \in RepoChars THEN run_end(cs, p + 1) ELSE p - 1

\* the regular expression of line 13 matches at position p; "/" is outside the
\* class, so each greedy [..]+ takes the whole run and backtracking finds nothing more
match_at(cs, p) ==
  LET o  == p + Len(HostPattern)
      oe == run_end(cs, o)
      ne == run_end(cs, oe + 2)
  IN  /\ p + Len(HostPattern) - 1 <= Len(cs)
      /\ SubSeq(cs, p, p + Len(HostPattern) - 1) = HostPattern
      /\ oe >= o
      /\ oe + 1 <= Len(cs)
      /\ cs[oe + 1] = "/"
      /\ ne >= oe + 2

\* match.group(1) of the match at p
group1(cs, p) ==
  LET o  == p + Len(HostPattern)
      oe == run_end(cs, o)
  IN  SubSeq(cs, o, run_end(cs, oe + 2))

\* re.sub(r'\.(git|md|html?)$', '', repo)
Extensions == { <<".","g","i","t">>, <<".","m","d">>, <<".","h","t","m">>,
                <<".","h","t","m","l">> }

\* a repo name that keeps its extension
strip_extension_never(cs) == cs

strip_extension(cs) ==
  IF \E e \in Extensions : ends_with(cs, e)
  THEN LET e == CHOOSE x \in Extensions : ends_with(cs, x)
       IN  SubSeq(cs, 1, Len(cs) - Len(e))
  ELSE cs

\* a text as the list of its characters, and None in its place
Text(cs) == [none |-> FALSE, chars |-> cs]
NoText   == [none |-> TRUE, chars |-> << >>]

\* data_persister.py 9-19 on the characters of url; re.search returns the
\* leftmost match
extract_repo(url) ==
  IF url.none \/ url.chars = << >> THEN NoText
  ELSE LET cs   == url.chars
           hits == {p \in 1..Len(cs) : match_at(cs, p)}
       IN  IF hits = {} THEN NoText
           ELSE LET p == CHOOSE q \in hits : \A r \in hits : q <= r
                IN  Text(lower(strip_extension(group1(cs, p))))

\* the same on the strings of CharTable
extract_github_repo_from_url(url) ==
  LET repo == extract_repo(IF url = NoneStr THEN NoText ELSE Text(chars(url)))
  IN  IF repo.none THEN NoneStr ELSE str(repo.chars)

(***************************************************************************)
(* State                                                                   *)
(***************************************************************************)
VARIABLES
  today,      \* date.today(), counted in days
  db,         \* the SQLite database: one sequence of rows per table
  pc,         \* run_collector: where the run stands
  run,        \* run_collector: its locals (repos, repo_id_map, items, positions)
  lastCall,   \* the last completed Store call: name, arguments, outcome, rows before
  history,    \* what earlier runs of the day did (inputs of the last completed and crashed run)
  writers,    \* concurrent upsert_repository calls: position, argument, SELECT result
  trend,      \* Trend Engine calls: arguments and results
  pipeline,   \* run_pipeline / run_daily_briefing: its locals and the files of data/ and reports/
  watch       \* the watched repository on GitHub, and what the two periodic jobs sent last

vars == <<today, db, pc, run, lastCall, history, writers, trend, pipeline, watch>>

\* init_db on a new file: every table exists and is empty (db.py 29-318)
EmptyDb ==
  [ repositories    |-> << >>,
    repo_snapshots  |-> << >>,
    repo_topics     |-> << >>,
    repo_files      |-> << >>,
    repo_readmes    |-> << >>,
    hn_stories      |-> << >>,
    hn_comments     |-> << >>,
    reddit_posts    |-> << >>,
    reddit_comments |-> << >>,
    repo_mentions   |-> << >>,
    briefings       |-> << >>,
    briefing_repos  |-> << >>,
    weekly_reports  |-> << >>,
    watched_repos   |-> << >>,
    smart_notifications |-> << >> ]

\* the outcome of a Store call: the database after it (unchanged when the call
\* raised: get_connection rolls back), the value returned, the exception raised
Ok(d, ret)   == [db |-> d, ret |-> ret, err |-> ""]
Raise(d, e)  == [db |-> d, ret |-> 0, err |-> e]

Ids(table) == 1..Len(table)

(***************************************************************************)
(* Store: repositories                                                     *)
(***************************************************************************)
\* UNIQUE(github_id), UNIQUE(full_name) of table repositories; NULLs never conflict
repositories_unique(table) ==
  \A i, j \in Ids(table) :
     i # j => /\ table[i].full_name # table[j].full_name
              /\ (table[i].github_id # None => table[i].github_id # table[j].github_id)

\* SELECT id FROM repositories WHERE github_id = ?   (NULL = NULL selects nothing)
select_by_github_id(table, github_id) ==
  {i \in Ids(table) : github_id # None /\ table[i].github_id = github_id}

\* the SELECT of upsert_repository with fetchone(): the id found, 0 for no row
upsert_select(d, repo_data) ==
  LET hit == select_by_github_id(d.repositories, repo_data.github_id)
  IN  IF hit = {} THEN 0 ELSE CHOOSE i \in hit : TRUE

\* upsert_write on a table without the two UNIQUE constraints
upsert_write_unconstrained(d, repo_data, existing) ==
  LET table == d.repositories
      hit   == select_by_github_id(table, repo_data.github_id)
      upd   == [i \in Ids(table) |->
                  IF i \in hit
                  THEN [table[i] EXCEPT !.full_name = repo_data.name,
                                        !.url = repo_data.url,
                                        !.language = repo_data.lang]
                  ELSE table[i]]
      ins   == Append(table, [github_id |-> repo_data.github_id,
                              full_name |-> repo_data.name,
                              url       |-> repo_data.url,
                              language  |-> repo_data.lang])
      new   == IF existing # 0 THEN upd ELSE ins
  IN  IF repo_data.name = NoneStr \/ repo_data.url = NoneStr THEN Raise(d, "KeyError")
      ELSE Ok([d EXCEPT !.repositories = new],
              IF existing # 0 THEN existing ELSE Len(new))

\* the UPDATE or INSERT of upsert_repository, given what the SELECT found
upsert_write(d, repo_data, existing) ==
  LET table == d.repositories
      hit   == select_by_github_id(table, repo_data.github_id)
      upd   == [i \in Ids(table) |->
                  IF i \in hit
                  THEN [table[i] EXCEPT !.full_name = repo_data.name,
                                        !.url = repo_data.url,
                                        !.language = repo_data.lang]
                  ELSE table[i]]
      ins   == Append(table, [github_id |-> repo_data.github_id,
                              full_name |-> repo_data.name,
                              url       |-> repo_data.url,
                              language  |-> repo_data.lang])
      new   == IF existing # 0 THEN upd ELSE ins
  IN  IF repo_data.name = NoneStr \/ repo_data.url = NoneStr THEN Raise(d, "KeyError")
      ELSE IF ~repositories_unique(new) THEN Raise(d, "IntegrityError")
      ELSE Ok([d EXCEPT !.repositories = new],
              IF existing # 0 THEN existing ELSE Len(new))

upsert_repository(d, repo_data) == upsert_write(d, repo_data, upsert_select(d, repo_data))

\* SELECT * FROM repositories WHERE full_name = ?  : the id, 0 for no row
get_repo_by_name(d, full_name) ==
  LET hit == {i \in Ids(d.repositories) : d.repositories[i].full_name = full_name}
  IN  IF hit = {} THEN 0 ELSE CHOOSE i \in hit : TRUE

(***************************************************************************)
(* Store: snapshots and repository metadata                                *)
(***************************************************************************)
\* save_repo_snapshot as a plain INSERT into a table without UNIQUE(repo_id, snapshot_date)
save_repo_snapshot_plain_insert(d, repo_id, stars, forks, open_issues) ==
  Ok([d EXCEPT !.repo_snapshots =
        Append(@, [repo_id |-> repo_id, stars |-> stars, forks |-> forks,
                   open_issues |-> open_issues, snapshot_date |-> today])], 0)

\* save_repo_snapshot with a conflict target of repo_id alone: it overwrites
\* the repository's rows of every day
save_repo_snapshot_any_day(d, repo_id, stars, forks, open_issues) ==
  LET table == d.repo_snapshots
      hit   == {i \in Ids(table) : table[i].repo_id = repo_id}
  IN  IF stars = None \/ repo_id = None THEN Raise(d, "IntegrityError")
      ELSE Ok([d EXCEPT !.repo_snapshots =
                 IF hit # {}
                 THEN [i \in Ids(table) |->
                         IF i \in hit
                         THEN [table[i] EXCEPT !.stars = stars, !.forks = forks,
                                               !.open_issues = open_issues]
                         ELSE table[i]]
                 ELSE Append(table, [repo_id |-> repo_id, stars |-> stars, forks |-> forks,
                                     open_issues |-> open_issues, snapshot_date |-> today])], 0)

save_repo_snapshot(d, repo_id, stars, forks, open_issues) ==
  LET table == d.repo_snapshots
      hit   == {i \in Ids(table) : table[i].repo_id = repo_id
                                   /\ table[i].snapshot_date = today}
      upd   == [i \in Ids(table) |->
                  IF i \in hit
                  THEN [table[i] EXCEPT !.stars = stars, !.forks = forks,
                                        !.open_issues = open_issues]
                  ELSE table[i]]
      ins   == Append(table, [repo_id |-> repo_id, stars |-> stars, forks |-> forks,
                              open_issues |-> open_issues, snapshot_date |-> today])
  IN  IF stars = None \/ repo_id = None THEN Raise(d, "IntegrityError")
      ELSE Ok([d EXCEPT !.repo_snapshots = IF hit # {} THEN upd ELSE ins], 0)

\* INSERT OR IGNORE of one (repo_id, value) row into a table with UNIQUE(repo_id, value)
insert_or_ignore(table, row) ==
  IF \E i \in Ids(table) : table[i] = row THEN table ELSE Append(table, row)

\* a value sqlite3 cannot bind to a parameter (a list or a dict in place of a
\* str): execute raises ProgrammingError; and an element of a comment list that
\* is no dict: comment.get raises AttributeError
Unbindable == "<unbindable>"
NotADict   == "<no dict>"

\* the rows a loop of INSERTs has written on the connection when it ends, and
\* the exception that ended it ("" for none)
Work(table, err) == [table |-> table, err |-> err]

\* a connection that commits what was written also when the block raised
get_connection_committing(d, written, err, ret) ==
  [db |-> written, ret |-> IF err # "" THEN 0 ELSE ret, err |-> err]

\* db.py 13-26: the with-block of get_connection: commit after the block, and
\* rollback and re-raise when the block raised
get_connection(d, written, err, ret) ==
  IF err # "" THEN Raise(d, err) ELSE Ok(written, ret)

\* db.py 380-387: INSERT OR IGNORE skips a row whose NOT NULL topic is None
RECURSIVE insert_topics(_, _, _)
insert_topics(table, repo_id, topics) ==
  IF topics = << >> THEN Work(table, "")
  ELSE IF Head(topics) = Unbindable THEN Work(table, "ProgrammingError")
  ELSE insert_topics(IF Head(topics) = NoneStr THEN table
                     ELSE insert_or_ignore(table, [repo_id |-> repo_id, topic |-> Head(topics)]),
                     repo_id, Tail(topics))

save_repo_topics(d, repo_id, topics) ==
  LET work == insert_topics(d.repo_topics, repo_id, topics)
  IN  get_connection(d, [d EXCEPT !.repo_topics = work.table], work.err, 0)

\* db.py 390-397
RECURSIVE insert_files(_, _, _)
insert_files(table, repo_id, files) ==
  IF files = << >> THEN Work(table, "")
  ELSE IF Head(files) = Unbindable THEN Work(table, "ProgrammingError")
  ELSE insert_files(IF Head(files) = NoneStr THEN table
                    ELSE insert_or_ignore(table, [repo_id |-> repo_id, filename |-> Head(files)]),
                    repo_id, Tail(files))

save_repo_files(d, repo_id, files) ==
  LET work == insert_files(d.repo_files, repo_id, files)
  IN  get_connection(d, [d EXCEPT !.repo_files = work.table], work.err, 0)

save_repo_readme(d, repo_id, content) ==
  LET table == d.repo_readmes
      hit   == {i \in Ids(table) : table[i].repo_id = repo_id}
  IN  Ok([d EXCEPT !.repo_readmes =
             IF hit # {}
             THEN [i \in Ids(table) |-> IF i \in hit THEN [table[i] EXCEPT !.content = content]
                                        ELSE table[i]]
             ELSE Append(table, [repo_id |-> repo_id, content |-> content])], 0)

(***************************************************************************)
(* Store: discussion items, comments, mentions                             *)
(***************************************************************************)
\* save_hn_story as INSERT OR REPLACE: the stored row takes every value of the
\* new record, under the id it had
save_hn_story_replacing(d, story_data) ==
  LET table == d.hn_stories
      hit   == {i \in Ids(table) : table[i].hn_id = story_data.id}
      row   == [hn_id |-> story_data.id, title |-> story_data.title,
                url |-> story_data.url, score |-> story_data.score,
                comment_count |-> story_data.comments,
                author |-> story_data.author, fetched_at |-> today]
  IN  IF story_data.id = None \/ story_data.title = NoneStr THEN Raise(d, "IntegrityError")
      ELSE IF hit # {}
      THEN Ok([d EXCEPT !.hn_stories = [i \in Ids(table) |-> IF i \in hit THEN row ELSE table[i]]],
              CHOOSE i \in hit : TRUE)
      ELSE Ok([d EXCEPT !.hn_stories = Append(table, row)], Len(table) + 1)

\* db.py 437-459: INSERT ... ON CONFLICT(hn_id) DO UPDATE SET score, comment_count,
\* fetched_at = CURRENT_TIMESTAMP RETURNING id; hn_id and title are NOT NULL
save_hn_story(d, story_data) ==
  LET table == d.hn_stories
      hit   == {i \in Ids(table) : table[i].hn_id = story_data.id}
      upd   == [i \in Ids(table) |->
                  IF i \in hit
                  THEN [table[i] EXCEPT !.score = story_data.score,
                                        !.comment_count = story_data.comments,
                                        !.fetched_at = today]
                  ELSE table[i]]
      ins   == Append(table, [hn_id |-> story_data.id, title |-> story_data.title,
                              url |-> story_data.url, score |-> story_data.score,
                              comment_count |-> story_data.comments,
                              author |-> story_data.author, fetched_at |-> today])
  IN  IF story_data.id = None \/ story_data.title = NoneStr THEN Raise(d, "IntegrityError")
      ELSE IF hit # {} THEN Ok([d EXCEPT !.hn_stories = upd], CHOOSE i \in hit : TRUE)
      ELSE Ok([d EXCEPT !.hn_stories = ins], Len(ins))

\* db.py 462-469, 506-520: story_id and post_id are NOT NULL
RECURSIVE insert_comments(_, _, _)
insert_comments(table, parent, comments) ==
  IF comments = << >> THEN Work(table, "")
  ELSE IF Head(comments) = NotADict THEN Work(table, "AttributeError")
  ELSE IF Head(comments) = Unbindable THEN Work(table, "ProgrammingError")
  ELSE IF parent = None THEN Work(table, "IntegrityError")
  ELSE insert_comments(Append(table, [parent |-> parent, content |-> Head(comments)]),
                       parent, Tail(comments))

save_hn_comments(d, story_id, comments) ==
  LET work == insert_comments(d.hn_comments, story_id, comments)
  IN  get_connection(d, [d EXCEPT !.hn_comments = work.table], work.err, 0)

\* save_reddit_post returning the id of the last row of the table when it updates
save_reddit_post_last_row(d, post_data) ==
  LET table == d.reddit_posts
      hit   == {i \in Ids(table) : table[i].reddit_id = post_data.id}
      upd   == [i \in Ids(table) |->
                  IF i \in hit
                  THEN [table[i] EXCEPT !.score = post_data.score,
                                        !.comment_count = post_data.comments,
                                        !.fetched_at = today]
                  ELSE table[i]]
      ins   == Append(table, [reddit_id |-> post_data.id, title |-> post_data.title,
                              url |-> post_data.url, selftext |-> post_data.selftext,
                              score |-> post_data.score,
                              comment_count |-> post_data.comments,
                              author |-> post_data.author, fetched_at |-> today])
  IN  IF post_data.id = None \/ post_data.title = NoneStr THEN Raise(d, "IntegrityError")
      ELSE IF hit # {} THEN Ok([d EXCEPT !.reddit_posts = upd], Len(table))
      ELSE Ok([d EXCEPT !.reddit_posts = ins], Len(ins))

\* db.py 474-503: the same upsert on reddit_id
save_reddit_post(d, post_data) ==
  LET table == d.reddit_posts
      hit   == {i \in Ids(table) : table[i].reddit_id = post_data.id}
      upd   == [i \in Ids(table) |->
                  IF i \in hit
                  THEN [table[i] EXCEPT !.score = post_data.score,
                                        !.comment_count = post_data.comments,
                                        !.fetched_at = today]
                  ELSE table[i]]
      ins   == Append(table, [reddit_id |-> post_data.id, title |-> post_data.title,
                              url |-> post_data.url, selftext |-> post_data.selftext,
                              score |-> post_data.score,
                              comment_count |-> post_data.comments,
                              author |-> post_data.author, fetched_at |-> today])
  IN  IF post_data.id = None \/ post_data.title = NoneStr THEN Raise(d, "IntegrityError")
      ELSE IF hit # {} THEN Ok([d EXCEPT !.reddit_posts = upd], CHOOSE i \in hit : TRUE)
      ELSE Ok([d EXCEPT !.reddit_posts = ins], Len(ins))

save_reddit_comments(d, post_id, comments) ==
  LET work == insert_comments(d.reddit_comments, post_id, comments)
  IN  get_connection(d, [d EXCEPT !.reddit_comments = work.table], work.err, 0)

\* save_repo_mention as a plain INSERT into a table without the UNIQUE constraint
save_repo_mention_plain_insert(d, repo_id, source_type, source_id) ==
  Ok([d EXCEPT !.repo_mentions =
        Append(@, [repo_id |-> repo_id, source_type |-> source_type,
                   source_id |-> source_id, mention_date |-> today])], 0)

\* INSERT OR IGNORE INTO repo_mentions, UNIQUE(repo_id, source_type, source_id)
save_repo_mention(d, repo_id, source_type, source_id) ==
  LET table == d.repo_mentions
      hit   == {i \in Ids(table) : /\ table[i].repo_id = repo_id
                                   /\ table[i].source_type = source_type
                                   /\ table[i].source_id = source_id}
  IN  Ok([d EXCEPT !.repo_mentions =
             IF hit # {} THEN table
             ELSE Append(table, [repo_id |-> repo_id, source_type |-> source_type,
                                 source_id |-> source_id, mention_date |-> today])], 0)

(***************************************************************************)
(* Bounds and inputs                                                       *)
(***************************************************************************)
MaxDay == 1          \* days the clock advances
MaxRuns == 2         \* ingestion runs started
MaxCalls == 1        \* direct save_repo_mention calls between runs
MaxSnapshots == 3    \* rows of repo_snapshots under direct Store calls

\* a repository record as fetch_repos builds it (fetcher.py 71-80); github_id,
\* forks and open_issues are read with .get() by the Store and the Ingestor
RepoRecord(name, github_id, stars) ==
  [ name |-> name, github_id |-> github_id, stars |-> stars,
    forks |-> None, open_issues |-> None,
    url |-> IF name = "a/B" THEN "github.com/a/B" ELSE "github.com/c/d",
    lang |-> IF name = "a/B" THEN "Go" ELSE "Rust",
    topics |-> IF name = "a/B" THEN <<"ai">> ELSE << >>,
    files  |-> IF name = "a/B" THEN <<"README.md">> ELSE << >>,
    readme |-> IF name = "a/B" THEN "# a" ELSE "" ]

\* records of repository a/B: with and without external id, two star counts,
\* and one without its "stars" key
RecordsA == {RepoRecord("a/B", g, s) : g \in {None, 7}, s \in {10, 20}}
              \cup {RepoRecord("a/B", None, None)}
RecordC == RepoRecord("c/d", None, 10)

RepoBatches == {<< >>} \cup {<<a>> : a \in RecordsA} \cup {<<a, RecordC>> : a \in RecordsA}

\* a record the Ingestor can process: every required key is there
well_formed_repo(r) == r.stars # None /\ r.name # NoneStr /\ r.url # NoneStr

Story(id, title, url, score, top_comments) ==
  [ id |-> id, title |-> title, url |-> url, score |-> score,
    comments |-> Len(top_comments), author |-> "u", top_comments |-> top_comments ]

\* fetch_hn_data results: the three lists of hn_fetcher.py 153-157
HnInputs ==
  { [ top_stories |-> <<Story(101, "T", "github.com/a/B.git", 9, <<"c1">>)>>,
      github_mentions |-> <<Story(101, "T", "github.com/a/B.git", 5, << >>)>>,
      tech_discussions |-> <<Story(103, "try B", "x.org", 2, << >>)>> ],
    [ top_stories |-> <<Story(102, NoneStr, "x.org", 1, << >>),
                        Story(101, "T", "github.com/a/B.git", 5, << >>)>>,
      github_mentions |-> << >>,
      tech_discussions |-> << >> ] }

Post(id, url, selftext, score, top_comments) ==
  [ id |-> id, subreddit |-> "r", title |-> "T", url |-> url, selftext |-> selftext,
    score |-> score, comments |-> Len(top_comments), author |-> "u",
    top_comments |-> top_comments ]

\* fetch_reddit_data results (reddit_fetcher.py 141-145); a self post has url None
\* (reddit_fetcher.py 110); by_subreddit is given by its values() in order
RedditInputs ==
  { [ top_posts |-> <<Post(201, "github.com/a/B.git", "try B", 3, <<"c2">>)>>,
      github_mentions |-> <<Post(201, "github.com/a/B.git", "try B", 4, << >>)>>,
      by_subreddit |-> << <<Post(202, "", "see c/d", 1, << >>)>> >> ],
    [ top_posts |-> <<Post(203, NoneStr, "try B", 2, << >>),
                      Post(201, "github.com/a/B.git", "", 3, << >>)>>,
      github_mentions |-> << >>,
      by_subreddit |-> << >> ] }

SnapshotValues == { [stars |-> 10, forks |-> None, open_issues |-> None],
                    [stars |-> 20, forks |-> 5, open_issues |-> 2],
                    [stars |-> 20, forks |-> None, open_issues |-> 2] }

(***************************************************************************)
(* Ingestor: helpers                                                       *)
(***************************************************************************)
\* a Python dict as the sequence of its (key, value) pairs in insertion order
dict_has(m, k) == \E x \in Ids(m) : m[x].key = k
dict_get(m, k) == m[CHOOSE x \in Ids(m) : m[x].key = k].value
dict_set(m, k, v) ==
  IF dict_has(m, k)
  THEN [x \in Ids(m) |-> IF m[x].key = k THEN [key |-> k, value |-> v] ELSE m[x]]
  ELSE Append(m, [key |-> k, value |-> v])

RECURSIVE concat(_)
concat(lists) == IF lists = << >> THEN << >> ELSE Head(lists) \o concat(Tail(lists))

\* the deduplication keeping the last record of each truthy id
RECURSIVE unique_by_id_keep_last(_, _)
unique_by_id_keep_last(items, seen_ids) ==
  IF items = << >> THEN << >>
  ELSE LET x == Head(items)
           later == {Tail(items)[k].id : k \in DOMAIN Tail(items)}
       IN  IF x.id # None /\ x.id # 0 /\ x.id \notin later
           THEN <<x>> \o unique_by_id_keep_last(Tail(items), seen_ids)
           ELSE unique_by_id_keep_last(Tail(items), seen_ids)

\* data_persister.py 71-76 and 115-120: keep the first record of each truthy id
RECURSIVE unique_by_id(_, _)
unique_by_id(items, seen_ids) ==
  IF items = << >> THEN << >>
  ELSE LET x == Head(items)
       IN  IF x.id # None /\ x.id # 0 /\ x.id \notin seen_ids
           THEN <<x>> \o unique_by_id(Tail(items), seen_ids \cup {x.id})
           ELSE unique_by_id(Tail(items), seen_ids)

unique_stories(hn_data) ==
  unique_by_id(hn_data.top_stories \o hn_data.github_mentions \o hn_data.tech_discussions, {})

unique_posts(reddit_data) ==
  unique_by_id(reddit_data.top_posts \o reddit_data.github_mentions
                 \o concat(reddit_data.by_subreddit), {})

\* data_persister.py 145-146: the first tracked repository, in the order of the
\* map, whose name or bare name occurs in the lower-cased body; 0 for none
first_tracked_in(repo_name_to_id, selftext) ==
  LET body == lower(chars(selftext))
      hit  == {x \in Ids(repo_name_to_id) :
                 \/ contains(body, chars(repo_name_to_id[x].key))
                 \/ contains(body, last_segment(chars(repo_name_to_id[x].key)))}
  IN  IF hit = {} THEN 0 ELSE CHOOSE x \in hit : \A y \in hit : x <= y

NoCall == [op |-> "", args |-> << >>, ret |-> 0, err |-> "", before |-> << >>]
Call(op, args, res, before) ==
  [op |-> op, args |-> args, ret |-> res.ret, err |-> res.err, before |-> before]

NoRun == [ repos |-> << >>, i |-> 0, repo_id |-> 0, repo_id_map |-> << >>,
           items |-> << >>, j |-> 0, item_id |-> 0, day0 |-> 0, err |-> "" ]

NoTrend == [op |-> ""]

\* no pipeline run yet: data/ and reports/ hold no file
NoPipeline == [ entry |-> "", send_telegram |-> FALSE, loop |-> 0, approved |-> FALSE,
                writer_runs |-> 0, verdicts |-> << >>, returned |-> "",
                repos_file |-> FALSE, draft |-> 0, feedback |-> FALSE,
                final |-> 0, sent |-> 0, briefings0 |-> 0 ]

\* GitHub's star count of the repository that is watched, how often it changed,
\* the (chat, milestone) pairs the count rose over while the chat watched, and
\* the job that ran last and the notifications it handed to
\* send_telegram_message
NoWatch == [ stars |-> 0, changes |-> 0, crossed |-> {}, job |-> "", sent |-> << >> ]

NoHistory == [ runs |-> 0, calls |-> 0, persisted |-> {}, crashed |-> {} ]

Resting == {"idle", "done", "failed", "crashed"}
GithubPhase == {"gh_upsert", "gh_snapshot", "gh_topics", "gh_files", "gh_readme"}
HnPhase == {"hn_fetch", "hn_save", "hn_comments", "hn_mention"}
RedditPhase == {"rd_fetch", "rd_save", "rd_comments", "rd_url", "rd_text"}

(***************************************************************************)
(* run_collector: one ingestion run, one step per Store call               *)
(***************************************************************************)
Init ==
  /\ today = 0
  /\ db = EmptyDb
  /\ pc = "idle"
  /\ run = NoRun
  /\ lastCall = NoCall
  /\ history = NoHistory
  /\ writers = << >>
  /\ trend = NoTrend
  /\ pipeline = NoPipeline
  /\ watch = NoWatch

\* an exception leaves run_collector: nothing catches it (collector.py 16-67)
Fail(err) ==
  /\ pc' = "failed"
  /\ run' = [run EXCEPT !.err = err]
  /\ UNCHANGED history

\* collector.py 19-39: init_db, fetch_repos, "if not repos: return"
run_collector ==
  /\ pc \in Resting
  /\ history.runs < MaxRuns
  /\ \E repos \in RepoBatches :
       IF repos = << >>
       THEN pc' = "done" /\ run' = NoRun
       ELSE pc' = "gh_upsert" /\ run' = [NoRun EXCEPT !.repos = repos, !.i = 1, !.day0 = today]
  /\ history' = [history EXCEPT !.runs = @ + 1]
  /\ lastCall' = NoCall
  /\ UNCHANGED <<today, db, writers, trend, pipeline, watch>>

\* data_persister.py 42-55: the next Store call for the record, the next record,
\* or the return of persist_github_repos
gh_after_files(rec)    == IF rec.readme # "" THEN "gh_readme" ELSE "gh_next"
gh_after_topics(rec)   == IF rec.files # << >> THEN "gh_files" ELSE gh_after_files(rec)
gh_after_snapshot(rec) == IF rec.topics # << >> THEN "gh_topics" ELSE gh_after_topics(rec)

GhGoto(next) ==
  IF next # "gh_next" THEN pc' = next /\ UNCHANGED <<run, history>>
  ELSE IF run.i < Len(run.repos)
       THEN pc' = "gh_upsert" /\ run' = [run EXCEPT !.i = @ + 1] /\ UNCHANGED history
       ELSE /\ pc' = "hn_fetch"
            /\ run' = run
            /\ history' = [history EXCEPT !.persisted =
                             @ \cup {[repos |-> run.repos, day0 |-> run.day0, day |-> today]}]

\* data_persister.py 31-32
persist_github_repos_upsert ==
  /\ pc = "gh_upsert"
  /\ LET rec == run.repos[run.i]
         res == upsert_repository(db, rec)
     IN  /\ db' = res.db
         /\ lastCall' = Call("upsert_repository", rec, res, db.repositories)
         /\ IF res.err # "" THEN Fail(res.err)
            ELSE /\ pc' = "gh_snapshot"
                 /\ run' = [run EXCEPT !.repo_id = res.ret,
                                       !.repo_id_map = dict_set(@, str(lower(chars(rec.name))), res.ret)]
                 /\ UNCHANGED history
  /\ UNCHANGED <<today, writers, trend, pipeline, watch>>

\* data_persister.py 35-40
persist_github_repos_snapshot ==
  /\ pc = "gh_snapshot"
  /\ LET rec == run.repos[run.i]
         res == IF rec.stars = None THEN Raise(db, "KeyError")
                ELSE save_repo_snapshot(db, run.repo_id, rec.stars, rec.forks, rec.open_issues)
     IN  /\ db' = res.db
         /\ lastCall' = Call("save_repo_snapshot",
                             [repo_id |-> run.repo_id, stars |-> rec.stars, forks |-> rec.forks,
                              open_issues |-> rec.open_issues], res, db.repo_snapshots)
         /\ IF res.err # "" THEN Fail(res.err) ELSE GhGoto(gh_after_snapshot(rec))
  /\ UNCHANGED <<today, writers, trend, pipeline, watch>>

\* data_persister.py 43-44
persist_github_repos_topics ==
  /\ pc = "gh_topics"
  /\ LET rec == run.repos[run.i]
         res == save_repo_topics(db, run.repo_id, rec.topics)
     IN  /\ db' = res.db
         /\ lastCall' = Call("save_repo_topics", rec.topics, res, db.repo_topics)
         /\ GhGoto(gh_after_topics(rec))
  /\ UNCHANGED <<today, writers, trend, pipeline, watch>>

\* data_persister.py 47-48
persist_github_repos_files ==
  /\ pc = "gh_files"
  /\ LET rec == run.repos[run.i]
         res == save_repo_files(db, run.repo_id, rec.files)
     IN  /\ db' = res.db
         /\ lastCall' = Call("save_repo_files", rec.files, res, db.repo_files)
         /\ GhGoto(gh_after_files(rec))
  /\ UNCHANGED <<today, writers, trend, pipeline, watch>>

\* data_persister.py 51-52
persist_github_repos_readme ==
  /\ pc = "gh_readme"
  /\ LET rec == run.repos[run.i]
         res == save_repo_readme(db, run.repo_id, rec.readme)
     IN  /\ db' = res.db
         /\ lastCall' = Call("save_repo_readme", rec.readme, res, db.repo_readmes)
         /\ GhGoto("gh_next")
  /\ UNCHANGED <<today, writers, trend, pipeline, watch>>

\* collector.py 43 and data_persister.py 64-76
fetch_hn_data ==
  /\ pc = "hn_fetch"
  /\ \E hn_data \in HnInputs :
       LET items == unique_stories(hn_data)
       IN  /\ run' = [run EXCEPT !.items = items, !.j = 1, !.item_id = 0]
           /\ pc' = IF items = << >> THEN "rd_fetch" ELSE "hn_save"
  /\ lastCall' = NoCall
  /\ UNCHANGED <<today, db, history, writers, trend, pipeline, watch>>

\* the next story, or the return of persist_hn_data
HnNext ==
  IF run.j < Len(run.items)
  THEN pc' = "hn_save" /\ run' = [run EXCEPT !.j = @ + 1] /\ UNCHANGED history
  ELSE pc' = "rd_fetch" /\ UNCHANGED <<run, history>>

\* data_persister.py 80-81
persist_hn_data_story ==
  /\ pc = "hn_save"
  /\ LET story == run.items[run.j]
         res   == save_hn_story(db, story)
     IN  /\ db' = res.db
         /\ lastCall' = Call("save_hn_story", story, res, db.hn_stories)
         /\ IF res.err # "" THEN Fail(res.err)
            ELSE /\ pc' = IF story.top_comments # << >> THEN "hn_comments" ELSE "hn_mention"
                 /\ run' = [run EXCEPT !.item_id = res.ret]
                 /\ UNCHANGED history
  /\ UNCHANGED <<today, writers, trend, pipeline, watch>>

\* data_persister.py 84-85
persist_hn_data_comments ==
  /\ pc = "hn_comments"
  /\ LET story == run.items[run.j]
         res   == save_hn_comments(db, run.item_id, story.top_comments)
     IN  /\ db' = res.db
         /\ lastCall' = Call("save_hn_comments", story.top_comments, res, db.hn_comments)
         /\ pc' = "hn_mention"
  /\ UNCHANGED <<today, run, history, writers, trend, pipeline, watch>>

\* data_persister.py 88-97: None.lower() raises AttributeError
persist_hn_data_mention ==
  /\ pc = "hn_mention"
  /\ LET story == run.items[run.j]
     IN  IF story.url = NoneStr
         THEN /\ Fail("AttributeError")
              /\ lastCall' = NoCall
              /\ UNCHANGED db
         ELSE LET repo_name == extract_github_repo_from_url(str(lower(chars(story.url))))
              IN  IF repo_name # NoneStr /\ dict_has(run.repo_id_map, repo_name)
                  THEN LET repo_id == dict_get(run.repo_id_map, repo_name)
                           res == save_repo_mention(db, repo_id, "hn", run.item_id)
                       IN  /\ db' = res.db
                           /\ lastCall' = Call("save_repo_mention",
                                               [repo_id |-> repo_id, source_type |-> "hn",
                                                source_id |-> run.item_id], res, db.repo_mentions)
                           /\ HnNext
                  ELSE /\ lastCall' = NoCall
                       /\ UNCHANGED db
                       /\ HnNext
  /\ UNCHANGED <<today, writers, trend, pipeline, watch>>

\* collector.py 56 and data_persister.py 108-120
fetch_reddit_data ==
  /\ pc = "rd_fetch"
  /\ \E reddit_data \in RedditInputs :
       LET items == unique_posts(reddit_data)
       IN  /\ run' = [run EXCEPT !.items = items, !.j = 1, !.item_id = 0]
           /\ pc' = IF items = << >> THEN "done" ELSE "rd_save"
  /\ lastCall' = NoCall
  /\ UNCHANGED <<today, db, history, writers, trend, pipeline, watch>>

\* the next post, or the return of persist_reddit_data and of run_collector
RedditNext ==
  IF run.j < Len(run.items)
  THEN pc' = "rd_save" /\ run' = [run EXCEPT !.j = @ + 1] /\ UNCHANGED history
  ELSE pc' = "done" /\ UNCHANGED <<run, history>>

\* data_persister.py 124-125
persist_reddit_data_post ==
  /\ pc = "rd_save"
  /\ LET post == run.items[run.j]
         res  == save_reddit_post(db, post)
     IN  /\ db' = res.db
         /\ lastCall' = Call("save_reddit_post", post, res, db.reddit_posts)
         /\ IF res.err # "" THEN Fail(res.err)
            ELSE /\ pc' = IF post.top_comments # << >> THEN "rd_comments" ELSE "rd_url"
                 /\ run' = [run EXCEPT !.item_id = res.ret]
                 /\ UNCHANGED history
  /\ UNCHANGED <<today, writers, trend, pipeline, watch>>

\* data_persister.py 128-129
persist_reddit_data_comments ==
  /\ pc = "rd_comments"
  /\ LET post == run.items[run.j]
         res  == save_reddit_comments(db, run.item_id, post.top_comments)
     IN  /\ db' = res.db
         /\ lastCall' = Call("save_reddit_comments", post.top_comments, res, db.reddit_comments)
         /\ pc' = "rd_url"
  /\ UNCHANGED <<today, run, history, writers, trend, pipeline, watch>>

\* data_persister.py 132-141: the mention found through the post's URL
persist_reddit_data_url_mention ==
  /\ pc = "rd_url"
  /\ LET post == run.items[run.j]
     IN  IF post.url = NoneStr
         THEN /\ Fail("AttributeError")
              /\ lastCall' = NoCall
              /\ UNCHANGED db
         ELSE LET repo_name == extract_github_repo_from_url(str(lower(chars(post.url))))
              IN  IF repo_name # NoneStr /\ dict_has(run.repo_id_map, repo_name)
                  THEN LET repo_id == dict_get(run.repo_id_map, repo_name)
                           res == save_repo_mention(db, repo_id, "reddit", run.item_id)
                       IN  /\ db' = res.db
                           /\ lastCall' = Call("save_repo_mention",
                                               [repo_id |-> repo_id, source_type |-> "reddit",
                                                source_id |-> run.item_id], res, db.repo_mentions)
                           /\ pc' = "rd_text"
                           /\ UNCHANGED <<run, history>>
                  ELSE /\ lastCall' = NoCall
                       /\ pc' = "rd_text"
                       /\ UNCHANGED <<db, run, history>>
  /\ UNCHANGED <<today, writers, trend, pipeline, watch>>

\* data_persister.py 144-153: the mention found through the post's body
persist_reddit_data_text_mention ==
  /\ pc = "rd_text"
  /\ LET post == run.items[run.j]
     IN  IF post.selftext = NoneStr
         THEN /\ Fail("AttributeError")
              /\ lastCall' = NoCall
              /\ UNCHANGED db
         ELSE LET x == first_tracked_in(run.repo_id_map, post.selftext)
              IN  IF x # 0
                  THEN LET repo_id == run.repo_id_map[x].value
                           res == save_repo_mention(db, repo_id, "reddit", run.item_id)
                       IN  /\ db' = res.db
                           /\ lastCall' = Call("save_repo_mention",
                                               [repo_id |-> repo_id, source_type |-> "reddit",
                                                source_id |-> run.item_id], res, db.repo_mentions)
                           /\ RedditNext
                  ELSE /\ lastCall' = NoCall
                       /\ UNCHANGED db
                       /\ RedditNext
  /\ UNCHANGED <<today, writers, trend, pipeline, watch>>

\* the process dies between two Store calls; what is committed stays
Crash ==
  /\ pc \notin Resting
  /\ pc' = "crashed"
  /\ run' = NoRun
  /\ history' = [history EXCEPT !.crashed =
                   @ \cup {[repos |-> run.repos, day0 |-> run.day0, day |-> today]}]
  /\ lastCall' = NoCall
  /\ UNCHANGED <<today, db, writers, trend, pipeline, watch>>

\* midnight: date.today() moves on
NextDay ==
  /\ today < MaxDay
  /\ today' = today + 1
  /\ lastCall' = NoCall
  /\ UNCHANGED <<db, pc, run, history, writers, trend, pipeline, watch>>

\* save_repo_mention called on the Store between runs
call_save_repo_mention ==
  /\ pc \in Resting
  /\ history.calls < MaxCalls
  /\ \E repo_id \in 1..2, source_type \in {"hn", "reddit"}, source_id \in 1..1 :
       LET res == save_repo_mention(db, repo_id, source_type, source_id)
       IN  /\ db' = res.db
           /\ lastCall' = Call("save_repo_mention",
                               [repo_id |-> repo_id, source_type |-> source_type,
                                source_id |-> source_id], res, db.repo_mentions)
  /\ history' = [history EXCEPT !.calls = @ + 1]
  /\ UNCHANGED <<today, pc, run, writers, trend, pipeline, watch>>

Next ==
  \/ run_collector
  \/ persist_github_repos_upsert
  \/ persist_github_repos_snapshot
  \/ persist_github_repos_topics
  \/ persist_github_repos_files
  \/ persist_github_repos_readme
  \/ fetch_hn_data
  \/ persist_hn_data_story
  \/ persist_hn_data_comments
  \/ persist_hn_data_mention
  \/ fetch_reddit_data
  \/ persist_reddit_data_post
  \/ persist_reddit_data_comments
  \/ persist_reddit_data_url_mention
  \/ persist_reddit_data_text_mention
  \/ Crash
  \/ NextDay
  \/ call_save_repo_mention

Spec == Init /\ [][Next]_vars

(***************************************************************************)
(* The Store called directly: any record, any repository id, any values    *)
(***************************************************************************)
\* records of two repositories, and one that gives external id 7 the name c/d
StoreRecords == RecordsA \cup {RecordC, RepoRecord("c/d", 7, 10)}

call_upsert_repository ==
  /\ \E repo_data \in StoreRecords :
       LET res == upsert_repository(db, repo_data)
       IN  /\ db' = res.db
           /\ lastCall' = Call("upsert_repository", repo_data, res, db.repositories)
  /\ UNCHANGED <<today, pc, run, history, writers, trend, pipeline, watch>>

call_save_repo_snapshot ==
  /\ \E repo_id \in 1..2, v \in SnapshotValues :
       LET res == save_repo_snapshot(db, repo_id, v.stars, v.forks, v.open_issues)
       IN  /\ Len(res.db.repo_snapshots) <= MaxSnapshots
           /\ db' = res.db
           /\ lastCall' = Call("save_repo_snapshot",
                               [repo_id |-> repo_id, stars |-> v.stars, forks |-> v.forks,
                                open_issues |-> v.open_issues], res, db.repo_snapshots)
  /\ UNCHANGED <<today, pc, run, history, writers, trend, pipeline, watch>>

NextStore ==
  \/ call_upsert_repository
  \/ call_save_repo_snapshot
  \/ NextDay

SpecStore == Init /\ [][NextStore]_vars

(***************************************************************************)
(* Two connections in upsert_repository at once                            *)
(***************************************************************************)
\* The SELECT runs outside any transaction; the UPDATE or INSERT opens one,
\* which get_connection commits when the with block ends (db.py 19-21), so a
\* writer's write and commit are one step and its SELECT is another.
WriterRecords == { RepoRecord("a/B", None, 10), RepoRecord("a/B", 7, 10),
                   RecordC, RepoRecord("c/d", 7, 10) }

Writers == {1, 2}

repository_row(repo_data) ==
  [ github_id |-> repo_data.github_id, full_name |-> repo_data.name,
    url |-> repo_data.url, language |-> repo_data.lang ]

InitWriters ==
  /\ today = 0
  /\ \E table \in {<< >>} \cup {<<repository_row(r)>> : r \in WriterRecords} :
       /\ db = [EmptyDb EXCEPT !.repositories = table]
       /\ \E args \in [Writers -> WriterRecords] :
            writers = [w \in Writers |->
                        [ pc |-> "select", repo_data |-> args[w], existing |-> 0,
                          ret |-> 0, err |-> "",
                          \* a row with the record's external id or name is stored at the start
                          stored |-> \E i \in Ids(table) :
                                       \/ table[i].full_name = args[w].name
                                       \/ /\ args[w].github_id # None
                                          /\ table[i].github_id = args[w].github_id ]]
  /\ pc = "idle"
  /\ run = NoRun
  /\ lastCall = NoCall
  /\ history = NoHistory
  /\ trend = NoTrend
  /\ pipeline = NoPipeline
  /\ watch = NoWatch

\* db.py 327-330
writer_select(w) ==
  /\ writers[w].pc = "select"
  /\ writers' = [writers EXCEPT ![w].pc = "write",
                                ![w].existing = upsert_select(db, writers[w].repo_data)]
  /\ UNCHANGED <<today, db, pc, run, lastCall, history, trend, pipeline, watch>>

\* db.py 332-362 and the commit or rollback of get_connection
writer_write(w) ==
  /\ writers[w].pc = "write"
  /\ LET res == upsert_write(db, writers[w].repo_data, writers[w].existing)
     IN  /\ db' = res.db
         /\ writers' = [writers EXCEPT ![w].pc = IF res.err = "" THEN "done" ELSE "failed",
                                       ![w].ret = res.ret,
                                       ![w].err = res.err]
  /\ UNCHANGED <<today, pc, run, lastCall, history, trend, pipeline, watch>>

NextWriters == \E w \in Writers : writer_select(w) \/ writer_write(w)

SpecWriters == InitWriters /\ [][NextWriters]_vars

(***************************************************************************)
(* Trend Engine                                                            *)
(***************************************************************************)
\* A Python float that the code obtains by dividing two integers is the exact
\* fraction num/den with den > 0.  The comparisons with 0.2 and -0.5 below are
\* made on the fractions: the double nearest to n/d differs from the double 0.2
\* by far more than one rounding error unless n/d = 1/5, and then both are the
\* same double.
Fraction(num, den) == [num |-> num, den |-> den]
Zero == Fraction(0, 1)

abs(x) == IF x < 0 THEN -x ELSE x

\* growth_trend > 0.2, that is num/den > 1/5
gt_0_2(x) == 5 * x.num > x.den
\* growth_trend < -0.5, that is num/den < -1/2
lt_minus_0_5(x) == 2 * x.num < -x.den

\* classify_trend with the rising threshold taken as growth_7d >= 100
classify_trend_at_least_100(growth_7d, growth_trend, stars_7d_ago) ==
  IF stars_7d_ago = None THEN "new"
  ELSE IF growth_7d >= 100 /\ gt_0_2(growth_trend) THEN "rising"
  ELSE IF growth_7d < 0 \/ lt_minus_0_5(growth_trend) THEN "declining"
  ELSE "steady"

\* classify_trend that calls rising whatever gained more than 100 stars
classify_trend_by_growth(growth_7d, growth_trend, stars_7d_ago) ==
  IF stars_7d_ago = None THEN "new"
  ELSE IF growth_7d > 100 THEN "rising"
  ELSE IF growth_7d < 0 \/ lt_minus_0_5(growth_trend) THEN "declining"
  ELSE "steady"

\* trend_analyzer.py 92-107
classify_trend(growth_7d, growth_trend, stars_7d_ago) ==
  IF stars_7d_ago = None THEN "new"
  ELSE IF growth_7d > 100 /\ gt_0_2(growth_trend) THEN "rising"
  ELSE IF growth_7d < 0 \/ lt_minus_0_5(growth_trend) THEN "declining"
  ELSE "steady"

\* db.py 598-619: None, or (current, past) where past can be None
NoGrowth == << >>

\* get_star_growth taking the latest snapshot before today as the baseline
get_star_growth_any_older(d, repo_id, days) ==
  LET table   == d.repo_snapshots
      current == {i \in Ids(table) : table[i].repo_id = repo_id
                                     /\ table[i].snapshot_date = today}
      older   == {i \in Ids(table) : table[i].repo_id = repo_id
                                     /\ table[i].snapshot_date < today}
      latest  == CHOOSE i \in older :
                   \A j \in older : table[j].snapshot_date <= table[i].snapshot_date
  IN  IF current = {} THEN NoGrowth
      ELSE <<table[CHOOSE i \in current : TRUE].stars,
             IF older = {} THEN None ELSE table[latest].stars>>

get_star_growth(d, repo_id, days) ==
  LET table   == d.repo_snapshots
      past    == today - days
      current == {i \in Ids(table) : table[i].repo_id = repo_id
                                     /\ table[i].snapshot_date = today}
      older   == {i \in Ids(table) : table[i].repo_id = repo_id
                                     /\ table[i].snapshot_date <= past}
      \* ORDER BY snapshot_date DESC LIMIT 1
      latest  == CHOOSE i \in older :
                   \A j \in older : table[j].snapshot_date <= table[i].snapshot_date
  IN  IF current = {} THEN NoGrowth
      ELSE <<table[CHOOSE i \in current : TRUE].stars,
             IF older = {} THEN None ELSE table[latest].stars>>

\* round(x, ndigits) of a float x = num/den, scale = 10^ndigits: the nearest
\* multiple of 1/scale, a tie going to the even one.  (Python rounds the double
\* nearest to num/den; that double is the tie itself only when the reduced den
\* is a power of two, the case this rule is exact for.)
\* A quotient with den = 0 stands for the ZeroDivisionError its division
\* raised: there is no float to round, and it is passed on as it is.
round(x, scale) ==
  LET n == x.num * scale
      q == n \div x.den
      r == n - q * x.den
  IN  IF x.den = 0 THEN x
      ELSE Fraction(IF 2 * r < x.den THEN q
                    ELSE IF 2 * r > x.den THEN q + 1
                    ELSE IF q % 2 = 0 THEN q ELSE q + 1, scale)

\* get_mention_counts counting the mentions of every date
get_mention_counts_all_time(d, repo_id, days) ==
  LET n(t) == Cardinality({i \in Ids(d.repo_mentions) :
                              /\ d.repo_mentions[i].repo_id = repo_id
                              /\ d.repo_mentions[i].source_type = t})
  IN  [hn |-> n("hn"), reddit |-> n("reddit")]

\* db.py 534-548
get_mention_counts(d, repo_id, days) ==
  LET since == today - days
      n(t)  == Cardinality({i \in Ids(d.repo_mentions) :
                              /\ d.repo_mentions[i].repo_id = repo_id
                              /\ d.repo_mentions[i].mention_date >= since
                              /\ d.repo_mentions[i].source_type = t})
  IN  [hn |-> n("hn"), reddit |-> n("reddit")]

\* db.py 586-593
get_feature_count(d, repo_id) ==
  Cardinality({i \in Ids(d.briefing_repos) : d.briefing_repos[i].repo_id = repo_id})

\* calculate_trend_metrics without the test growth_first_week != 0
calculate_trend_metrics_unguarded(d, repo_id, repo_name) ==
  LET growth_7d  == get_star_growth(d, repo_id, 7)
      growth_14d == get_star_growth(d, repo_id, 14)
  IN  IF growth_7d = NoGrowth THEN [status |-> "none"]
      ELSE
      LET current_stars == growth_7d[1]
          stars_7d_ago  == growth_7d[2]
          stars_14d_ago == IF growth_14d # NoGrowth THEN growth_14d[2] ELSE None
          abs_growth_7d == IF stars_7d_ago # None THEN current_stars - stars_7d_ago ELSE 0
          growth_first_week  == stars_7d_ago - stars_14d_ago
          growth_second_week == current_stars - stars_7d_ago
          raised == stars_7d_ago # None /\ stars_14d_ago # None /\ growth_first_week = 0
          growth_trend ==
            IF stars_7d_ago # None /\ stars_14d_ago # None /\ growth_first_week # 0
            THEN Fraction(growth_second_week - growth_first_week, abs(growth_first_week))
            ELSE Zero
          pct_growth_7d ==
            IF stars_7d_ago # None /\ stars_7d_ago > 0
            THEN Fraction(abs_growth_7d * 100, stars_7d_ago)
            ELSE Zero
          mentions == get_mention_counts(d, repo_id, 7)
      IN  IF raised THEN [status |-> "ZeroDivisionError"]
          ELSE
          [ repo_name |-> repo_name,
            repo_id |-> repo_id,
            current_stars |-> current_stars,
            stars_7d_ago |-> stars_7d_ago,
            stars_14d_ago |-> stars_14d_ago,
            growth_7d |-> abs_growth_7d,
            growth_7d_pct |-> round(pct_growth_7d, 100),
            growth_trend |-> round(growth_trend, 100),
            hn_mentions_7d |-> mentions.hn,
            reddit_mentions_7d |-> mentions.reddit,
            total_mentions_7d |-> mentions.hn + mentions.reddit,
            status |-> classify_trend(abs_growth_7d, growth_trend, stars_7d_ago),
            times_featured |-> get_feature_count(d, repo_id) ]

\* trend_analyzer.py 35-89; classify_trend is called with growth_trend as
\* computed, the record carries round(growth_trend, 2) and round(pct, 2)
NoMetrics == [status |-> "none"]
calculate_trend_metrics(d, repo_id, repo_name) ==
  LET growth_7d  == get_star_growth(d, repo_id, 7)
      growth_14d == get_star_growth(d, repo_id, 14)
  IN  IF growth_7d = NoGrowth THEN NoMetrics
      ELSE
      LET current_stars == growth_7d[1]
          stars_7d_ago  == growth_7d[2]
          stars_14d_ago == IF growth_14d # NoGrowth THEN growth_14d[2] ELSE None
          abs_growth_7d == IF stars_7d_ago # None THEN current_stars - stars_7d_ago ELSE 0
          growth_first_week  == stars_7d_ago - stars_14d_ago
          growth_second_week == current_stars - stars_7d_ago
          growth_trend ==
            IF stars_7d_ago # None /\ stars_14d_ago # None /\ growth_first_week # 0
            THEN Fraction(growth_second_week - growth_first_week, abs(growth_first_week))
            ELSE Zero
          pct_growth_7d ==
            IF stars_7d_ago # None /\ stars_7d_ago > 0
            THEN Fraction(abs_growth_7d * 100, stars_7d_ago)
            ELSE Zero
          mentions == get_mention_counts(d, repo_id, 7)
      IN  [ repo_name |-> repo_name,
            repo_id |-> repo_id,
            current_stars |-> current_stars,
            stars_7d_ago |-> stars_7d_ago,
            stars_14d_ago |-> stars_14d_ago,
            growth_7d |-> abs_growth_7d,
            growth_7d_pct |-> round(pct_growth_7d, 100),
            growth_trend |-> round(growth_trend, 100),
            hn_mentions_7d |-> mentions.hn,
            reddit_mentions_7d |-> mentions.reddit,
            total_mentions_7d |-> mentions.hn + mentions.reddit,
            status |-> classify_trend(abs_growth_7d, growth_trend, stars_7d_ago),
            times_featured |-> get_feature_count(d, repo_id) ]

(***************************************************************************)
(* The Trend Engine called on a Store with a snapshot history              *)
(***************************************************************************)
TrendToday == 15     \* the day the Trend Engine runs; histories reach back to day 0

\* how many days before today a snapshot of the history can be dated
Ages == <<15, 14, 8, 7, 6, 0>>
\* star counts of a snapshot; 0 - 1 stands for no snapshot on that day
StarCounts == {0, 900, 1000, 1300}

\* the rows save_repo_snapshot left on those days, oldest first
RECURSIVE history_rows(_, _)
history_rows(stars_by_age, k) ==
  IF k > Len(Ages) THEN << >>
  ELSE (IF stars_by_age[k] = None THEN << >>
        ELSE << [repo_id |-> 1, stars |-> stars_by_age[k], forks |-> None,
                 open_issues |-> None, snapshot_date |-> TrendToday - Ages[k]] >>)
       \o history_rows(stars_by_age, k + 1)

\* the rows save_repo_mention left: source and age in days of each mention
Mention(source_type, age) == [source_type |-> source_type, age |-> age]
MentionHistories ==
  { << >>,
    << Mention("hn", 8) >>,
    << Mention("hn", 0), Mention("hn", 7), Mention("reddit", 3) >>,
    << Mention("hn", 8), Mention("hn", 0), Mention("reddit", 8),
       Mention("hn", 7), Mention("reddit", 3) >> }

mention_rows(mentions) ==
  [ i \in DOMAIN mentions |->
      [ repo_id |-> 1, source_type |-> mentions[i].source_type, source_id |-> i,
        mention_date |-> TrendToday - mentions[i].age ] ]

InitTrend ==
  /\ today = TrendToday
  /\ \E stars_by_age \in [DOMAIN Ages -> StarCounts \cup {None}],
        mentions \in MentionHistories :
       db = [EmptyDb EXCEPT !.repositories = <<repository_row(RepoRecord("a/B", None, 10))>>,
                            !.repo_snapshots = history_rows(stars_by_age, 1),
                            !.repo_mentions = mention_rows(mentions)]
  /\ pc = "idle"
  /\ run = NoRun
  /\ lastCall = NoCall
  /\ history = NoHistory
  /\ writers = << >>
  /\ trend = NoTrend
  /\ pipeline = NoPipeline
  /\ watch = NoWatch

Growths == {-10, -1, 0, 100, 101, 150}
Accelerations == { Fraction(-6, 10), Fraction(-1, 2), Fraction(-3, 10), Zero,
                   Fraction(1, 5), Fraction(2, 10), Fraction(3, 10), Fraction(2, 1) }
Baselines == {None, 0, 1000}

call_classify_trend ==
  /\ \E growth_7d \in Growths, growth_trend \in Accelerations, stars_7d_ago \in Baselines :
       trend' = [ op |-> "classify_trend",
                  growth_7d |-> growth_7d, growth_trend |-> growth_trend,
                  stars_7d_ago |-> stars_7d_ago,
                  result |-> classify_trend(growth_7d, growth_trend, stars_7d_ago) ]
  /\ UNCHANGED <<today, db, pc, run, lastCall, history, writers, pipeline, watch>>

call_calculate_trend_metrics ==
  /\ \E repo_id \in Ids(db.repositories) :
       trend' = [ op |-> "calculate_trend_metrics",
                  repo_id |-> repo_id,
                  result |-> calculate_trend_metrics(db, repo_id, db.repositories[repo_id].full_name) ]
  /\ UNCHANGED <<today, db, pc, run, lastCall, history, writers, pipeline, watch>>

NextTrend == call_calculate_trend_metrics

SpecTrend == InitTrend /\ [][NextTrend]_vars

\* classify_trend alone, on every combination of its arguments
NextClassify == call_classify_trend

SpecClassify == Init /\ [][NextClassify]_vars

(***************************************************************************)
(* Report Aggregator: weekly_report.py and the weekly_reports table        *)
(***************************************************************************)
\* "if chat_id:" — None and the empty string are falsy
truthy(text) == text # NoneStr /\ text # ""

Min(a, b) == IF a < b THEN a ELSE b

\* seq[:n]
take(seq, n) == SubSeq(seq, 1, Min(n, Len(seq)))

RECURSIVE sum(_)
sum(ints) == IF ints = << >> THEN 0 ELSE Head(ints) + sum(Tail(ints))

\* sorted(seq, key=.., reverse=..): Python's sort is stable, also with reverse;
\* keys[i] is the key of seq[i]
sorted(seq, keys, reverse) ==
  LET before(j, i) == \/ (IF reverse THEN keys[j] > keys[i] ELSE keys[j] < keys[i])
                      \/ (keys[j] = keys[i] /\ j < i)
      at(p) == CHOOSE i \in DOMAIN seq :
                 Cardinality({j \in DOMAIN seq : before(j, i)}) = p - 1
  IN  [p \in DOMAIN seq |-> seq[at(p)]]

\* json.dumps and json.loads of a report: a dict of str keys, lists, ints, floats
\* and strs is written as text and read back as the same dict
json_dumps(report_data) == [json |-> report_data]
json_loads(text) == text.json

\* db.py 622-630: the DISTINCT rows of repositories joined with repo_snapshots,
\* in rowid order
get_all_repos_with_snapshots(d) ==
  SelectSeq([i \in Ids(d.repositories) |->
               [id |-> i, full_name |-> d.repositories[i].full_name,
                language |-> d.repositories[i].language]],
            LAMBDA r : \E k \in Ids(d.repo_snapshots) : d.repo_snapshots[k].repo_id = r.id)

\* db.py 1102-1109
save_weekly_report(d, chat_id, week_start, week_end, report_data) ==
  Ok([d EXCEPT !.weekly_reports =
        Append(@, [chat_id |-> chat_id, week_start |-> week_start, week_end |-> week_end,
                   report_data |-> json_dumps(report_data)])], 0)

\* db.py 1112-1132, limit = 4 at weekly_report.py 214
WeeklyLimit == 4

\* get_weekly_reports without the WHERE chat_id = ? of a named scope
get_weekly_reports_any_scope(d, chat_id, limit) ==
  LET table    == d.weekly_reports
      matching == Ids(table)
      n        == Cardinality(matching)
      orders   == {f \in [1..n -> matching] :
                     /\ \A p, q \in 1..n : p # q => f[p] # f[q]
                     /\ \A p, q \in 1..n :
                          p < q => table[f[p]].week_start >= table[f[q]].week_start}
  IN  { take([p \in 1..n |-> [id |-> f[p], chat_id |-> table[f[p]].chat_id,
                              week_start |-> table[f[p]].week_start,
                              week_end |-> table[f[p]].week_end,
                              report_data |-> json_loads(table[f[p]].report_data)]], limit)
        : f \in orders }

\* the lists get_weekly_reports can return: the rows of the scope (every row for
\* a falsy chat_id) ORDER BY week_start DESC LIMIT ?; rows with equal week_start
\* come in an order SQL leaves open
get_weekly_reports(d, chat_id, limit) ==
  LET table    == d.weekly_reports
      matching == {i \in Ids(table) : truthy(chat_id) => table[i].chat_id = chat_id}
      n        == Cardinality(matching)
      orders   == {f \in [1..n -> matching] :
                     /\ \A p, q \in 1..n : p # q => f[p] # f[q]
                     /\ \A p, q \in 1..n :
                          p < q => table[f[p]].week_start >= table[f[q]].week_start}
  IN  { take([p \in 1..n |-> [id |-> f[p], chat_id |-> table[f[p]].chat_id,
                              week_start |-> table[f[p]].week_start,
                              week_end |-> table[f[p]].week_end,
                              report_data |-> json_loads(table[f[p]].report_data)]], limit)
        : f \in orders }

\* weekly_report.py 88-98: the metrics of the repositories that have some, and
\* the statistics per language, in the order the languages are first met
repo_language(repo) == IF truthy(repo.language) THEN repo.language ELSE "Other"

RECURSIVE language_stats(_, _)
language_stats(kept, stats) ==
  IF kept = << >> THEN stats
  ELSE LET x    == Head(kept)
           lang == repo_language(x.repo)
           cur  == IF dict_has(stats, lang) THEN dict_get(stats, lang)
                   ELSE [count |-> 0, total_growth |-> 0, repos |-> << >>]
       IN  language_stats(Tail(kept),
             dict_set(stats, lang,
                      [count |-> cur.count + 1,
                       total_growth |-> cur.total_growth + x.metrics.growth_7d,
                       repos |-> Append(cur.repos, x.repo.full_name)]))

\* weekly_report.py 177-203: the insight lines, each by its kind and the values
\* its text is formatted from
generate_insights(report) ==
  (IF report.rising_stars # << >>
   THEN << [kind |-> "star_of_week", name |-> report.rising_stars[1].name,
            growth_7d |-> report.rising_stars[1].growth_7d,
            growth_pct |-> report.rising_stars[1].growth_pct] >>
   ELSE << >>)
  \o (IF report.top_languages # << >>
      THEN << [kind |-> "top_language", language |-> report.top_languages[1].language,
               count |-> report.top_languages[1].count,
               total_growth |-> report.top_languages[1].total_growth] >>
      ELSE << >>)
  \o (IF report.most_discussed # << >>
      THEN << [kind |-> "most_discussed", name |-> report.most_discussed[1].name,
               hn_mentions |-> report.most_discussed[1].hn_mentions,
               reddit_mentions |-> report.most_discussed[1].reddit_mentions] >>
      ELSE << >>)
  \o (IF report.summary.avg_growth.num > 100 * report.summary.avg_growth.den
      THEN << [kind |-> "strong_week", avg_growth |-> report.summary.avg_growth] >>
      ELSE IF report.summary.avg_growth.num < 0
      THEN << [kind |-> "slow_week"] >>
      ELSE << >>)

\* weekly_report.py 50-174, taken apart so that every value is computed once:
\* the metrics kept at line 90, the lists of lines 101-105 and 146, the entries
\* of lines 107-155
weekly_metrics(d, repos) ==
  SelectSeq([i \in DOMAIN repos |->
               [repo |-> repos[i],
                metrics |-> calculate_trend_metrics(d, repos[i].id, repos[i].full_name)]],
            LAMBDA x : x.metrics # NoMetrics)

with_status(all_metrics, status) == SelectSeq(all_metrics, LAMBDA m : m.status = status)

by_growth(metrics, reverse) ==
  sorted(metrics, [i \in DOMAIN metrics |-> metrics[i].growth_7d], reverse)

by_mentions(metrics) ==
  sorted(metrics, [i \in DOMAIN metrics |-> metrics[i].total_mentions_7d], TRUE)

by_total_growth(language_trends) ==
  sorted(language_trends,
         [i \in DOMAIN language_trends |-> language_trends[i].value.total_growth], TRUE)

rising_item(m) ==
  [name |-> m.repo_name, stars |-> m.current_stars, growth_7d |-> m.growth_7d,
   growth_pct |-> m.growth_7d_pct, mentions |-> m.total_mentions_7d]

declining_item(m) ==
  [name |-> m.repo_name, stars |-> m.current_stars, growth_7d |-> m.growth_7d,
   growth_pct |-> m.growth_7d_pct]

discussed_item(m) ==
  [name |-> m.repo_name, hn_mentions |-> m.hn_mentions_7d,
   reddit_mentions |-> m.reddit_mentions_7d, total |-> m.total_mentions_7d]

language_trend(entry) ==
  [key |-> entry.key,
   value |-> [count |-> entry.value.count,
              avg_growth |-> round(Fraction(entry.value.total_growth, entry.value.count), 10),
              total_growth |-> entry.value.total_growth]]

top_language_item(entry) ==
  [language |-> entry.key, count |-> entry.value.count,
   avg_growth |-> entry.value.avg_growth, total_growth |-> entry.value.total_growth]

discussed_items(top5) ==
  [i \in DOMAIN top5 |-> discussed_item(top5[i])]

\* weekly_summary dividing by len(all_metrics) without asking whether it is empty
weekly_summary_unguarded(all_metrics, rising, declining, sorted_langs, total_growth) ==
  [total_repos |-> Len(all_metrics),
   rising_count |-> Len(rising),
   declining_count |-> Len(declining),
   avg_growth |-> round(Fraction(total_growth, Len(all_metrics)), 10),
   total_stars_gained |-> total_growth,
   top_language |-> IF sorted_langs # << >> THEN sorted_langs[1].key ELSE "N/A"]

\* weekly_report.py 157-164
weekly_summary(all_metrics, rising, declining, sorted_langs, total_growth) ==
  [total_repos |-> Len(all_metrics),
   rising_count |-> Len(rising),
   declining_count |-> Len(declining),
   avg_growth |-> IF all_metrics # << >>
                  THEN round(Fraction(total_growth, Len(all_metrics)), 10)
                  ELSE Zero,
   total_stars_gained |-> total_growth,
   top_language |-> IF sorted_langs # << >> THEN sorted_langs[1].key ELSE "N/A"]

\* the report before its insights (weekly_report.py 60-71 and 107-165)
weekly_body(all_metrics, rising, declining, language_trends, sorted_langs, top5, total_growth) ==
  [week_start |-> today - 7, week_end |-> today, generated_at |-> today,
   rising_stars |-> [i \in 1..Min(10, Len(rising)) |-> rising_item(rising[i])],
   declining_repos |-> [i \in 1..Min(5, Len(declining)) |-> declining_item(declining[i])],
   language_trends |-> language_trends,
   hot_topics |-> << >>,
   top_languages |-> [i \in 1..Min(5, Len(sorted_langs)) |-> top_language_item(sorted_langs[i])],
   most_discussed |-> discussed_items(SelectSeq(top5, LAMBDA m : m.total_mentions_7d > 0)),
   summary |-> weekly_summary(all_metrics, rising, declining, sorted_langs, total_growth),
   insights |-> << >>]

with_insights(report) == [report EXCEPT !.insights = generate_insights(report)]

weekly_lists(all_metrics, language_trends) ==
  with_insights(
    weekly_body(all_metrics,
                by_growth(with_status(all_metrics, "rising"), TRUE),
                by_growth(with_status(all_metrics, "declining"), FALSE),
                language_trends,
                by_total_growth(language_trends),
                take(by_mentions(all_metrics), 5),
                sum([i \in DOMAIN all_metrics |-> all_metrics[i].growth_7d])))

language_trends_of(stats) == [i \in DOMAIN stats |-> language_trend(stats[i])]

weekly_report_of(kept) ==
  weekly_lists([i \in DOMAIN kept |-> kept[i].metrics],
               language_trends_of(language_stats(kept, << >>)))

\* weekly_report.py 76-78: the report returned when no repository has a snapshot
no_data_report ==
  [week_start |-> today - 7, week_end |-> today, generated_at |-> today,
   rising_stars |-> << >>, declining_repos |-> << >>, language_trends |-> << >>,
   hot_topics |-> << >>, most_discussed |-> << >>,
   summary |-> [message |-> "not enough data"], insights |-> << >>]

\* weekly_report.py 170-174
save_and_return(d, chat_id, report) ==
  IF truthy(chat_id)
  THEN [db |-> save_weekly_report(d, chat_id, today - 7, today, report).db, report |-> report]
  ELSE [db |-> d, report |-> report]

weekly_report_for(d, chat_id, repos) ==
  IF repos = << >> THEN [db |-> d, report |-> no_data_report]
  ELSE save_and_return(d, chat_id, weekly_report_of(weekly_metrics(d, repos)))

\* weekly_report.py 50-174: the Store after the call and the report returned
generate_weekly_report(d, chat_id) ==
  weekly_report_for(d, chat_id, get_all_repos_with_snapshots(d))

\* weekly_report.py 242-246: per language, its total_growth in each report that
\* lists it, in the order of weekly_reports
collect(pairs, acc) ==
  LET values(k) == LET of_k == SelectSeq(pairs, LAMBDA x : x.key = k)
                   IN  [i \in DOMAIN of_k |-> of_k[i].value]
      added == SelectSeq([i \in DOMAIN pairs |-> i],
                         LAMBDA i : /\ ~dict_has(acc, pairs[i].key)
                                    /\ \A j \in 1..(i - 1) : pairs[j].key # pairs[i].key)
  IN  [i \in DOMAIN acc |-> [key |-> acc[i].key, value |-> acc[i].value \o values(acc[i].key)]]
        \o [i \in DOMAIN added |->
              [key |-> pairs[added[i]].key, value |-> values(pairs[added[i]].key)]]

lang_over_time(weekly_reports) ==
  collect(concat([w \in DOMAIN weekly_reports |->
                    LET lt == weekly_reports[w].report_data.language_trends
                    IN  [e \in DOMAIN lt |->
                           [key |-> lt[e].key, value |-> lt[e].value.total_growth]]]),
          << >>)

\* weekly_report.py 250
trend_direction(growths) ==
  IF growths[Len(growths)] > growths[1] THEN "rising"
  ELSE IF growths[Len(growths)] < growths[1] THEN "declining"
  ELSE "stable"

\* weekly_report.py 258-262: how many reports list a repository as rising
repo_appearances(weekly_reports) ==
  LET seen == collect(concat([w \in DOMAIN weekly_reports |->
                                LET rs == weekly_reports[w].report_data.rising_stars
                                IN  [e \in DOMAIN rs |-> [key |-> rs[e].name, value |-> 1]]]),
                      << >>)
  IN  [i \in DOMAIN seen |-> [key |-> seen[i].key, value |-> Len(seen[i].value)]]

\* weekly_report.py 206-290; message = NoneStr stands for a report without the
\* "message" key
generate_monthly_report(weekly_reports) ==
  LET head == [month_start |-> today - 30, month_end |-> today, generated_at |-> today]
      over == lang_over_time(weekly_reports)
      language_evolution ==
        [i \in DOMAIN over |->
           [key |-> over[i].key,
            value |-> [avg_weekly_growth |->
                         round(Fraction(sum(over[i].value), Len(over[i].value)), 10),
                       trend |-> trend_direction(over[i].value),
                       weeks_tracked |-> Len(over[i].value)]]]
      appearances == repo_appearances(weekly_reports)
      by_count == sorted(appearances, [i \in DOMAIN appearances |-> appearances[i].value], TRUE)
      risers   == SelectSeq(by_count, LAMBDA x : x.value >= 2)
      monthly_rising_stars ==
        take([i \in DOMAIN risers |-> [name |-> risers[i].key, weeks_rising |-> risers[i].value]],
             10)
      rising_langs ==
        LET r == SelectSeq(language_evolution, LAMBDA x : x.value.trend = "rising")
        IN  sorted(r, [i \in DOMAIN r |-> r[i].value.avg_weekly_growth.num], TRUE)
  IN  IF weekly_reports = << >>
      THEN [month_start |-> head.month_start, month_end |-> head.month_end,
            generated_at |-> head.generated_at,
            weekly_summaries |-> << >>, monthly_rising_stars |-> << >>,
            language_evolution |-> << >>, trend_insights |-> << >>,
            predictions |-> << >>, message |-> "not enough data"]
      ELSE [month_start |-> head.month_start, month_end |-> head.month_end,
            generated_at |-> head.generated_at,
            weekly_summaries |->
              [w \in DOMAIN weekly_reports |->
                 [week |-> weekly_reports[w].week_start,
                  rising_count |-> weekly_reports[w].report_data.summary.rising_count,
                  avg_growth |-> weekly_reports[w].report_data.summary.avg_growth,
                  top_language |-> weekly_reports[w].report_data.summary.top_language]],
            monthly_rising_stars |-> monthly_rising_stars,
            language_evolution |-> language_evolution,
            trend_insights |->
              (IF monthly_rising_stars # << >>
               THEN << [kind |-> "most_consistent", name |-> monthly_rising_stars[1].name,
                        weeks_rising |-> monthly_rising_stars[1].weeks_rising] >>
               ELSE << >>)
              \o (IF rising_langs # << >>
                  THEN << [kind |-> "rising_language", language |-> rising_langs[1].key,
                           avg_weekly_growth |-> rising_langs[1].value.avg_weekly_growth] >>
                  ELSE << >>),
            predictions |-> << >>, message |-> NoneStr]

(***************************************************************************)
(* The Report Aggregator called on a Store that ingestion keeps filling    *)
(***************************************************************************)
ReportDay0 == 14       \* the first day a report is asked for
MaxReportDays == 1     \* days the clock advances after it
MaxWeeklyReports == 2  \* weekly reports generated
MaxReportSnapshots == 4 \* rows of repo_snapshots while reports are generated

\* who asks for a report: nobody in particular (None), or a chat
Scopes == {NoneStr, "me"}

\* the snapshots of one repository before ReportDay0: none, one of a week ago,
\* or one of two weeks ago and one of a week ago
Pasts == { << >>, << [age |-> 7, stars |-> 100] >>,
           << [age |-> 14, stars |-> 100], [age |-> 7, stars |-> 150] >> }
ReportStars == {150, 400}

past_rows(repo_id, past) ==
  [i \in DOMAIN past |->
     [repo_id |-> repo_id, stars |-> past[i].stars, forks |-> None, open_issues |-> None,
      snapshot_date |-> ReportDay0 - past[i].age]]

InitReports ==
  /\ today = ReportDay0
  /\ \E p1 \in Pasts, p2 \in Pasts :
       db = [EmptyDb EXCEPT
               !.repositories = << repository_row(RepoRecord("a/B", None, 10)),
                                   [repository_row(RecordC) EXCEPT !.language = NoneStr] >>,
               !.repo_snapshots = past_rows(1, p1) \o past_rows(2, p2)]
  /\ pc = "idle"
  /\ run = NoRun
  /\ lastCall = NoCall
  /\ history = NoHistory
  /\ writers = << >>
  /\ trend = NoTrend
  /\ pipeline = NoPipeline
  /\ watch = NoWatch

\* ingestion stores today's star count of a repository
report_save_snapshot ==
  /\ Len(db.repo_snapshots) < MaxReportSnapshots
  /\ \E repo_id \in 1..2, stars \in ReportStars :
       db' = save_repo_snapshot(db, repo_id, stars, None, None).db
  /\ trend' = NoTrend
  /\ UNCHANGED <<today, pc, run, lastCall, history, writers, pipeline, watch>>

report_next_day ==
  /\ today < ReportDay0 + MaxReportDays
  /\ today' = today + 1
  /\ trend' = NoTrend
  /\ UNCHANGED <<db, pc, run, lastCall, history, writers, pipeline, watch>>

call_generate_weekly_report ==
  /\ history.calls < MaxWeeklyReports
  /\ \E chat_id \in Scopes :
       LET res == generate_weekly_report(db, chat_id)
       IN  /\ db' = res.db
           /\ trend' = [op |-> "generate_weekly_report", chat_id |-> chat_id,
                        result |-> res.report, before |-> db.weekly_reports]
  /\ history' = [history EXCEPT !.calls = @ + 1]
  /\ UNCHANGED <<today, pc, run, lastCall, writers, pipeline, watch>>

call_generate_monthly_report ==
  /\ \E chat_id \in Scopes :
       \E weekly_reports \in get_weekly_reports(db, chat_id, WeeklyLimit) :
          trend' = [op |-> "generate_monthly_report", chat_id |-> chat_id,
                    weekly_reports |-> weekly_reports,
                    result |-> generate_monthly_report(weekly_reports)]
  /\ UNCHANGED <<today, db, pc, run, lastCall, history, writers, pipeline, watch>>

NextReports ==
  \/ report_save_snapshot
  \/ report_next_day
  \/ call_generate_weekly_report
  \/ call_generate_monthly_report

SpecReports == InitReports /\ [][NextReports]_vars

(***************************************************************************)
(* Store: briefings.  No function of the repository calls these three.     *)
(***************************************************************************)
\* db.py 553-560: INSERT INTO briefings (report_path); returns lastrowid
create_briefing(d, report_path) ==
  LET ins == Append(d.briefings, [report_path |-> report_path, generated_at |-> today])
  IN  Ok([d EXCEPT !.briefings = ins], Len(ins))

\* db.py 563-569: INSERT OR IGNORE INTO briefing_repos, UNIQUE(briefing_id, repo_id)
mark_repo_featured(d, briefing_id, repo_id, feature_type) ==
  LET table == d.briefing_repos
      hit   == {i \in Ids(table) : table[i].briefing_id = briefing_id /\ table[i].repo_id = repo_id}
  IN  Ok([d EXCEPT !.briefing_repos =
            IF hit # {} THEN table
            ELSE Append(table, [briefing_id |-> briefing_id, repo_id |-> repo_id,
                                feature_type |-> feature_type])], 0)

\* data_persister.py 158-164
RECURSIVE mark_featured_repos(_, _, _, _)
mark_featured_repos(d, briefing_id, repos, star_of_day) ==
  IF repos = << >> THEN d
  ELSE LET repo   == Head(repos)
           repo_record == get_repo_by_name(d, repo.name)
           feature_type == IF repo.name = star_of_day THEN "star_of_day" ELSE "trending"
       IN  mark_featured_repos(
             IF repo_record # 0
             THEN mark_repo_featured(d, briefing_id, repo_record, feature_type).db
             ELSE d,
             briefing_id, Tail(repos), star_of_day)

(***************************************************************************)
(* The briefing pipeline: orchestrator.run_pipeline and                    *)
(* scheduler.run_daily_briefing, one step per agent call                   *)
(***************************************************************************)
MAX_LOOPS == 3
MaxPipelineRuns == 1   \* pipeline runs started

Entries == {"run_pipeline", "run_daily_briefing"}
\* what generate_content gives the analyst: a parsed status, or a response that
\* does not parse (analyst.py 57-61)
Verdicts == {"approved", "revise", "error"}

\* orchestrator.py 18-28, scheduler.py 162-175: the entry point calls
\* collector.run_collector(), which writes data/repos.json when fetch_repos
\* returned repositories (collector.py 23-32), and sets its loop locals
run_pipeline ==
  /\ pc \in {"idle", "pl_done", "failed"}
  /\ history.runs < MaxPipelineRuns
  /\ \E repos \in RepoBatches, entry \in Entries, send_telegram \in BOOLEAN :
       /\ entry = "run_daily_briefing" => send_telegram
       /\ IF repos = << >>
          THEN pc' = "done" /\ run' = NoRun
          ELSE pc' = "gh_upsert" /\ run' = [NoRun EXCEPT !.repos = repos, !.i = 1, !.day0 = today]
       /\ pipeline' = [pipeline EXCEPT !.entry = entry, !.send_telegram = send_telegram,
                                       !.loop = 0, !.approved = FALSE, !.writer_runs = 0,
                                       !.verdicts = << >>, !.returned = "",
                                       !.repos_file = @ \/ repos # << >>,
                                       !.sent = 0,
                                       !.briefings0 = Len(db.briefings)]
  /\ history' = [history EXCEPT !.runs = @ + 1]
  /\ lastCall' = NoCall
  /\ UNCHANGED <<today, db, writers, trend, watch>>

\* writer.py 20-125: without data/repos.json nothing is written; otherwise the
\* trend report is read from the Store and the model's answer becomes
\* data/draft.md.  generate_content may raise: run_pipeline lets the exception
\* out, run_daily_briefing catches it and ends (scheduler.py 193-194)
run_writer ==
  /\ pc \in {"done", "pl_write"}
  /\ pipeline.entry # ""
  /\ \E raised \in BOOLEAN :
       IF ~pipeline.repos_file
       THEN /\ pc' = "pl_analyse"
            /\ pipeline' = [pipeline EXCEPT !.writer_runs = @ + 1]
       ELSE IF raised
       THEN /\ pc' = "failed"
            /\ pipeline' = [pipeline EXCEPT !.writer_runs = @ + 1, !.returned = "raised"]
       ELSE /\ pc' = "pl_analyse"
            /\ pipeline' = [pipeline EXCEPT !.writer_runs = @ + 1,
                                            !.draft = 10 * history.runs + pipeline.writer_runs + 1]
  /\ lastCall' = NoCall
  /\ UNCHANGED <<today, db, run, history, writers, trend, watch>>

\* the loop of orchestrator.py 30-51 going on after an error verdict as it does
\* after a revise verdict
after_verdict_forgiving(p, status) ==
  LET q == [p EXCEPT !.verdicts = Append(@, status)]
  IN  IF status = "approved" THEN [pc |-> "pl_send", p |-> [q EXCEPT !.approved = TRUE]]
      ELSE [pc |-> IF p.loop + 1 < MAX_LOOPS THEN "pl_write" ELSE "pl_send",
            p  |-> [q EXCEPT !.loop = @ + 1]]

\* the locals of the loop after the analyst answered status:
\* orchestrator.py 30-51 (while loop < MAX_LOOPS, break on approved and on error)
\* and scheduler.py 178-186 (for i in range(max_loops), break on approved only)
after_verdict(p, status) ==
  LET q == [p EXCEPT !.verdicts = Append(@, status)]
  IN  IF p.entry = "run_pipeline"
      THEN IF status = "approved" THEN [pc |-> "pl_send", p |-> [q EXCEPT !.approved = TRUE]]
           ELSE IF status = "revise"
           THEN [pc |-> IF p.loop + 1 < MAX_LOOPS THEN "pl_write" ELSE "pl_send",
                 p  |-> [q EXCEPT !.loop = @ + 1]]
           ELSE [pc |-> "pl_send", p |-> q]
      ELSE IF status = "approved" THEN [pc |-> "pl_send", p |-> [q EXCEPT !.approved = TRUE]]
           ELSE [pc |-> IF p.loop + 1 < MAX_LOOPS THEN "pl_write" ELSE "pl_send",
                 p  |-> [q EXCEPT !.loop = @ + 1]]

\* analyst.py 22-82: "error" without a draft or for an unparsable answer;
\* "approved" copies the draft to reports/final_report.md and removes
\* data/feedback.json; anything else writes data/feedback.json.
\* generate_content may raise (analyst.py 47), as in run_writer
run_analyst ==
  /\ pc = "pl_analyse"
  /\ \E verdict \in Verdicts, raised \in BOOLEAN :
       LET status == IF pipeline.draft = 0 THEN "error" ELSE verdict
           files  == IF status = "approved"
                     THEN [pipeline EXCEPT !.final = pipeline.draft, !.feedback = FALSE]
                     ELSE IF status = "revise" THEN [pipeline EXCEPT !.feedback = TRUE]
                     ELSE pipeline
           next   == after_verdict(files, status)
       IN  IF raised /\ pipeline.draft # 0
           THEN /\ pc' = "failed"
                /\ pipeline' = [pipeline EXCEPT !.returned = "raised"]
           ELSE /\ pc' = next.pc
                /\ pipeline' = next.p
  /\ lastCall' = NoCall
  /\ UNCHANGED <<today, db, run, history, writers, trend, watch>>

\* orchestrator.py 53-62 and scheduler.py 188-191: send_briefing_sync sends
\* reports/final_report.md when it exists (telegram_bot.py 1273-1303);
\* run_pipeline returns approved
send_briefing_sync ==
  /\ pc = "pl_send"
  /\ pc' = "pl_done"
  /\ pipeline' = [pipeline EXCEPT
                    !.sent = IF pipeline.send_telegram THEN pipeline.final ELSE 0,
                    !.returned = IF pipeline.entry = "run_pipeline"
                                 THEN (IF pipeline.approved THEN "True" ELSE "False")
                                 ELSE "None"]
  /\ lastCall' = NoCall
  /\ UNCHANGED <<today, db, run, history, writers, trend, watch>>

NextPipeline ==
  \/ run_pipeline
  \/ persist_github_repos_upsert
  \/ persist_github_repos_snapshot
  \/ persist_github_repos_topics
  \/ persist_github_repos_files
  \/ persist_github_repos_readme
  \/ fetch_hn_data
  \/ persist_hn_data_story
  \/ persist_hn_data_comments
  \/ persist_hn_data_mention
  \/ fetch_reddit_data
  \/ persist_reddit_data_post
  \/ persist_reddit_data_comments
  \/ persist_reddit_data_url_mention
  \/ persist_reddit_data_text_mention
  \/ run_writer
  \/ run_analyst
  \/ send_briefing_sync

SpecPipeline == Init /\ [][NextPipeline]_vars

\* the loop is one thread of control: when its next statement can run, it runs
\* (an agent call returns or raises, time.sleep(2) returns)
SpecPipelineFair ==
  SpecPipeline /\ WF_vars(run_writer) /\ WF_vars(run_analyst) /\ WF_vars(send_briefing_sync)

(***************************************************************************)
(* save_hn_story and save_reddit_post called with any record               *)
(***************************************************************************)
MaxItemCalls == 3    \* save_hn_story / save_reddit_post calls

\* the values a platform reports for an item: what the item is (title, URL,
\* author) and what changes between two fetches (score, number of comments)
ItemTexts == { [title |-> "T", url |-> "x.org", author |-> "u"],
               [title |-> "try B", url |-> "github.com/c/d", author |-> "v"] }
ItemNumbers == { [score |-> 1, comments |-> << >>], [score |-> 9, comments |-> <<"c1">>] }

StoryInputs ==
  { [Story(id, t.title, t.url, n.score, n.comments) EXCEPT !.author = t.author] :
      id \in {101, 102}, t \in ItemTexts, n \in ItemNumbers }

PostInputs ==
  { [Post(id, t.url, "", n.score, n.comments) EXCEPT !.author = t.author, !.title = t.title] :
      id \in {201, 202}, t \in ItemTexts, n \in ItemNumbers }

call_save_hn_story ==
  /\ pc \in Resting
  /\ history.calls < MaxItemCalls
  /\ \E story_data \in StoryInputs :
       LET res == save_hn_story(db, story_data)
       IN  /\ db' = res.db
           /\ lastCall' = Call("save_hn_story", story_data, res, db.hn_stories)
  /\ history' = [history EXCEPT !.calls = @ + 1]
  /\ UNCHANGED <<today, pc, run, writers, trend, pipeline, watch>>

call_save_reddit_post ==
  /\ pc \in Resting
  /\ history.calls < MaxItemCalls
  /\ \E post_data \in PostInputs :
       LET res == save_reddit_post(db, post_data)
       IN  /\ db' = res.db
           /\ lastCall' = Call("save_reddit_post", post_data, res, db.reddit_posts)
  /\ history' = [history EXCEPT !.calls = @ + 1]
  /\ UNCHANGED <<today, pc, run, writers, trend, pipeline, watch>>

NextItems ==
  \/ call_save_hn_story
  \/ call_save_reddit_post
  \/ NextDay

SpecItems == Init /\ [][NextItems]_vars

(***************************************************************************)
(* Trend Engine: generate_trend_report                                     *)
(***************************************************************************)
\* db.py 572-583: the names of repositories linked to a briefing generated in
\* the last `days` days
get_previously_featured(d, days) ==
  { d.repositories[d.briefing_repos[k].repo_id].full_name :
      k \in {k \in Ids(d.briefing_repos) :
               /\ d.briefing_repos[k].repo_id \in Ids(d.repositories)
               /\ d.briefing_repos[k].briefing_id \in Ids(d.briefings)
               /\ d.briefings[d.briefing_repos[k].briefing_id].generated_at >= today - days} }

\* trend_analyzer.py 143-157: the metrics of the repositories that are stored
\* and have a snapshot of today, in the order of repos
RECURSIVE all_trend_metrics(_, _)
all_trend_metrics(d, repos) ==
  IF repos = << >> THEN << >>
  ELSE LET repo_record == get_repo_by_name(d, Head(repos).name)
           metrics     == IF repo_record = 0 THEN NoMetrics
                          ELSE calculate_trend_metrics(d, repo_record, Head(repos).name)
       IN  (IF metrics = NoMetrics THEN << >> ELSE <<metrics>>)
           \o all_trend_metrics(d, Tail(repos))

\* trend_analyzer.py 161-173 (trend_summary, a sentence built from these fields,
\* is left out)
trend_item(metrics) ==
  [ name |-> metrics.repo_name, current_stars |-> metrics.current_stars,
    growth_7d |-> metrics.growth_7d, growth_7d_pct |-> metrics.growth_7d_pct,
    growth_trend |-> metrics.growth_trend,
    hn_mentions_7d |-> metrics.hn_mentions_7d,
    reddit_mentions_7d |-> metrics.reddit_mentions_7d,
    total_mentions_7d |-> metrics.total_mentions_7d,
    status |-> metrics.status, times_featured |-> metrics.times_featured ]

\* trend_analyzer.py 198-206
most_discussed_item(m) ==
  [ name |-> m.repo_name, hn_mentions_7d |-> m.hn_mentions_7d,
    reddit_mentions_7d |-> m.reddit_mentions_7d,
    total_mentions_7d |-> m.total_mentions_7d ]

\* the values of one field of the records of a list
field_of(seq, field) == [i \in DOMAIN seq |-> seq[i][field]]

\* trend_analyzer.py 175-183: the items of one status, in the order of all_metrics
items_with_status(items, status) == SelectSeq(items, LAMBDA x : x.status = status)

\* trend_analyzer.py 192-206
most_discussed(all_metrics) ==
  LET discussed == SelectSeq(all_metrics, LAMBDA m : m.total_mentions_7d > 0)
      top       == take(sorted(discussed, field_of(discussed, "total_mentions_7d"), TRUE), 5)
  IN  [i \in DOMAIN top |-> most_discussed_item(top[i])]

\* trend_analyzer.py 216-221
summary_stats(all_metrics) ==
  [ total_repos_tracked |-> Len(all_metrics),
    new_repos_this_week |-> Len(SelectSeq(all_metrics, LAMBDA m : m.status = "new")),
    avg_star_growth |-> IF all_metrics # << >>
                        THEN round(Fraction(sum(field_of(all_metrics, "growth_7d")),
                                            Len(all_metrics)), 10)
                        ELSE Zero,
    total_mentions |-> sum(field_of(all_metrics, "total_mentions_7d")) ]

\* trend_lists with rising_stars limited to 5 before it is sorted
trend_lists_limit_first(d, all_metrics, items, rising, steady, cooling) ==
  [ rising_stars      |-> sorted(take(rising, 5), field_of(take(rising, 5), "growth_7d"), TRUE),
    steady_performers |-> take(sorted(steady, field_of(steady, "current_stars"), TRUE), 5),
    cooling_down      |-> take(sorted(cooling, field_of(cooling, "growth_7d"), FALSE), 3),
    most_discussed    |-> most_discussed(all_metrics),
    newcomers         |-> take(items_with_status(items, "new"), 5),
    repeat_performers |-> take(SelectSeq(items, LAMBDA x : x.times_featured > 1), 3),
    previously_featured |-> get_previously_featured(d, 7),
    summary_stats     |-> summary_stats(all_metrics) ]

\* trend_analyzer.py 159-214: categorize, sort each category, limit the lists
trend_lists(d, all_metrics, items, rising, steady, cooling) ==
  [ rising_stars      |-> take(sorted(rising, field_of(rising, "growth_7d"), TRUE), 5),
    steady_performers |-> take(sorted(steady, field_of(steady, "current_stars"), TRUE), 5),
    cooling_down      |-> take(sorted(cooling, field_of(cooling, "growth_7d"), FALSE), 3),
    most_discussed    |-> most_discussed(all_metrics),
    newcomers         |-> take(items_with_status(items, "new"), 5),
    repeat_performers |-> take(SelectSeq(items, LAMBDA x : x.times_featured > 1), 3),
    previously_featured |-> get_previously_featured(d, 7),
    summary_stats     |-> summary_stats(all_metrics) ]

trend_report_of(d, all_metrics, items) ==
  trend_lists(d, all_metrics, items, items_with_status(items, "rising"),
              items_with_status(items, "steady"), items_with_status(items, "declining"))

trend_report_for(d, all_metrics) ==
  trend_report_of(d, all_metrics, [i \in DOMAIN all_metrics |-> trend_item(all_metrics[i])])

\* trend_analyzer.py 110-223
generate_trend_report(d, repos) == trend_report_for(d, all_trend_metrics(d, repos))

(***************************************************************************)
(* generate_trend_report called on a Store that tracks several repositories*)
(***************************************************************************)
MaxTrendRepos == 6   \* repositories tracked

RepoNames == <<"r1", "r2", "r3", "r4", "r5", "r6", "r7">>

\* what the Store holds for a repository: its stars 14 and 7 days ago and today
\* (None for no snapshot on that day), how many mentions of the last 7 days and
\* in how many briefings it was featured
Profile(stars_14, stars_7, stars_0, mentions, featured) ==
  [ stars |-> <<stars_14, stars_7, stars_0>>, mentions |-> mentions, featured |-> featured ]

Profiles ==
  { Profile(1000, 1100, 1300, 1, 0),     \* rising, 200 in 7 days
    Profile(1000, 1100, 1400, 2, 2),     \* rising, 300 in 7 days
    Profile(1000, 1000, 1050, 3, 2),     \* steady, 1050 stars
    Profile(2000, 2000, 2050, 0, 0),     \* steady, 2050 stars
    Profile(1000, 1000, 990, 0, 3),      \* declining, -10
    Profile(1000, 1000, 980, 1, 0),      \* declining, -20
    Profile(None, None, 500, 1, 0) }     \* new

ProfileAges == <<14, 7, 0>>

profile_snapshots(repo_id, profile) ==
  LET rows == [k \in 1..3 |-> [repo_id |-> repo_id, stars |-> profile.stars[k], forks |-> None,
                               open_issues |-> None, snapshot_date |-> today - ProfileAges[k]]]
  IN  SelectSeq(rows, LAMBDA r : r.stars # None)

\* the Store after upsert_repository, save_repo_snapshot on three days,
\* save_repo_mention and mark_repo_featured for one more repository
with_tracked(d, name, profile) ==
  LET repo_id == Len(d.repositories) + 1
      base    == Len(d.repo_mentions)
  IN  [d EXCEPT
         !.repositories = Append(@, [github_id |-> None, full_name |-> name,
                                     url |-> name, language |-> NoneStr]),
         !.repo_snapshots = @ \o profile_snapshots(repo_id, profile),
         !.repo_mentions = @ \o [k \in 1..profile.mentions |->
                                   [repo_id |-> repo_id, source_type |-> "hn",
                                    source_id |-> base + k, mention_date |-> today]],
         !.briefing_repos = @ \o [b \in 1..profile.featured |->
                                    [briefing_id |-> b, repo_id |-> repo_id,
                                     feature_type |-> "trending"]] ]

\* three briefings exist (create_briefing called three times)
InitTrendReport ==
  /\ today = TrendToday
  /\ db = create_briefing(create_briefing(create_briefing(EmptyDb, NoneStr).db,
                                          NoneStr).db, NoneStr).db
  /\ pc = "idle"
  /\ run = NoRun
  /\ lastCall = NoCall
  /\ history = NoHistory
  /\ writers = << >>
  /\ trend = NoTrend
  /\ pipeline = NoPipeline
  /\ watch = NoWatch

track_repository ==
  /\ Len(db.repositories) < MaxTrendRepos
  /\ \E profile \in Profiles :
       db' = with_tracked(db, RepoNames[Len(db.repositories) + 1], profile)
  /\ trend' = NoTrend
  /\ UNCHANGED <<today, pc, run, lastCall, history, writers, pipeline, watch>>

\* the writer passes the repositories of data/repos.json (writer.py 42); here
\* one that is not stored, then every stored one
call_generate_trend_report ==
  /\ trend.op = ""
  /\ LET repos == <<[name |-> "ghost"]>>
                    \o [i \in Ids(db.repositories) |-> [name |-> db.repositories[i].full_name]]
     IN  trend' = [op |-> "generate_trend_report", repos |-> repos,
                   result |-> generate_trend_report(db, repos)]
  /\ UNCHANGED <<today, db, pc, run, lastCall, history, writers, pipeline, watch>>

NextTrendReport ==
  \/ track_repository
  \/ call_generate_trend_report

SpecTrendReport == InitTrendReport /\ [][NextTrendReport]_vars

(***************************************************************************)
(* The monthly report over weekly reports of many rising repositories      *)
(***************************************************************************)
MonthDay0 == 7          \* the day the first weekly report is generated
MaxMonthlyWeeks == 4    \* weeks that pass after it

RiserNames == << "r1", "r2", "r3", "r4", "r5", "r6", "r7", "r8", "r9", "r10",
                 "r11", "r12", "r13", "r14", "r15" >>

\* which repositories the Trend Engine finds RISING in a week: ten are ingested
\* per run (collector.py 23: fetch_repos(limit=10)), not the same ten every week
RisingSets == { 1..10, (1..5) \cup (11..15), 6..15 }

\* the metrics of a RISING repository; the k-th gains 200 + k stars in the week
rising_metrics(k) ==
  [ repo_name |-> RiserNames[k], repo_id |-> k, current_stars |-> 2000 + k,
    stars_7d_ago |-> 1800, stars_14d_ago |-> 1700, growth_7d |-> 200 + k,
    growth_7d_pct |-> round(Fraction((200 + k) * 100, 1800), 100),
    growth_trend |-> round(Fraction(100 + k, 100), 100),
    hn_mentions_7d |-> 0, reddit_mentions_7d |-> 0, total_mentions_7d |-> 0,
    status |-> "rising", times_featured |-> 0 ]

\* the rows generate_weekly_report keeps for the repositories of a week
rising_kept(rising) ==
  LET ids == sorted([k \in 1..15 |-> k], [k \in 1..15 |-> k], FALSE)
      in_week == SelectSeq(ids, LAMBDA k : k \in rising)
  IN  [i \in DOMAIN in_week |->
         [repo |-> [id |-> in_week[i], full_name |-> RiserNames[in_week[i]], language |-> "Go"],
          metrics |-> rising_metrics(in_week[i])]]

\* an earlier report of another chat
InitMonthly ==
  /\ today = MonthDay0
  /\ db = save_weekly_report(EmptyDb, "you", MonthDay0 - 7, MonthDay0,
                             weekly_report_of(rising_kept(1..10))).db
  /\ pc = "idle"
  /\ run = NoRun
  /\ lastCall = NoCall
  /\ history = NoHistory
  /\ writers = << >>
  /\ trend = NoTrend
  /\ pipeline = NoPipeline
  /\ watch = NoWatch

\* scheduler.py 135-159: the weekly job generates and saves the report of chat
\* "me", once a week
weekly_job ==
  /\ \A i \in Ids(db.weekly_reports) :
        db.weekly_reports[i].chat_id = "me" => db.weekly_reports[i].week_start # today - 7
  /\ \E rising \in RisingSets :
       db' = save_and_return(db, "me", weekly_report_of(rising_kept(rising))).db
  /\ trend' = NoTrend
  /\ UNCHANGED <<today, pc, run, lastCall, history, writers, pipeline, watch>>

next_week ==
  /\ today < MonthDay0 + 7 * MaxMonthlyWeeks
  /\ today' = today + 7
  /\ trend' = NoTrend
  /\ UNCHANGED <<db, pc, run, lastCall, history, writers, pipeline, watch>>

NextMonthly ==
  \/ weekly_job
  \/ next_week
  \/ call_generate_monthly_report

SpecMonthly == InitMonthly /\ [][NextMonthly]_vars

(***************************************************************************)
(* Direct calls of the multi-row saves                                     *)
(***************************************************************************)
MaxRowCalls == 2
MaxRows     == 3

\* lists of up to MaxRows topics or file names, one of which may be unbindable
RowValues == {"a", "b", NoneStr, Unbindable}
RowLists  == UNION {[1..n -> RowValues] : n \in 0..MaxRows}

\* lists of up to MaxRows comment texts; an element may be no dict, or carry a
\* text that cannot be bound
CommentValues == {"a", NoneStr, NotADict, Unbindable}
CommentLists  == UNION {[1..n -> CommentValues] : n \in 0..MaxRows}

RowIds == {1, 2, None}

call_save_repo_topics ==
  /\ history.calls < MaxRowCalls
  /\ \E repo_id \in RowIds, topics \in RowLists :
       LET res == save_repo_topics(db, repo_id, topics)
       IN  /\ db' = res.db
           /\ lastCall' = Call("save_repo_topics", [id |-> repo_id, rows |-> topics], res, db)
  /\ history' = [history EXCEPT !.calls = @ + 1]
  /\ UNCHANGED <<today, pc, run, writers, trend, pipeline, watch>>

call_save_repo_files ==
  /\ history.calls < MaxRowCalls
  /\ \E repo_id \in RowIds, files \in RowLists :
       LET res == save_repo_files(db, repo_id, files)
       IN  /\ db' = res.db
           /\ lastCall' = Call("save_repo_files", [id |-> repo_id, rows |-> files], res, db)
  /\ history' = [history EXCEPT !.calls = @ + 1]
  /\ UNCHANGED <<today, pc, run, writers, trend, pipeline, watch>>

call_save_hn_comments ==
  /\ history.calls < MaxRowCalls
  /\ \E story_id \in RowIds, comments \in CommentLists :
       LET res == save_hn_comments(db, story_id, comments)
       IN  /\ db' = res.db
           /\ lastCall' = Call("save_hn_comments", [id |-> story_id, rows |-> comments], res, db)
  /\ history' = [history EXCEPT !.calls = @ + 1]
  /\ UNCHANGED <<today, pc, run, writers, trend, pipeline, watch>>

call_save_reddit_comments ==
  /\ history.calls < MaxRowCalls
  /\ \E post_id \in RowIds, comments \in CommentLists :
       LET res == save_reddit_comments(db, post_id, comments)
       IN  /\ db' = res.db
           /\ lastCall' = Call("save_reddit_comments", [id |-> post_id, rows |-> comments], res, db)
  /\ history' = [history EXCEPT !.calls = @ + 1]
  /\ UNCHANGED <<today, pc, run, writers, trend, pipeline, watch>>

NextRows ==
  \/ call_save_repo_topics
  \/ call_save_repo_files
  \/ call_save_hn_comments
  \/ call_save_reddit_comments

SpecRows == Init /\ [][NextRows]_vars

(***************************************************************************)
(* The Trend Engine and the Report Aggregator on a Store with little data  *)
(***************************************************************************)
MaxSparseSnapshots == 3   \* rows of repo_snapshots while reports are generated

\* the snapshots of one repository before ReportDay0: none, one of yesterday,
\* one of a week ago with 0 stars, or two of 0 stars a week apart
SparsePasts == { << >>, << [age |-> 1, stars |-> 5] >>, << [age |-> 7, stars |-> 0] >>,
                 << [age |-> 14, stars |-> 0], [age |-> 7, stars |-> 0] >> }
SparseStars == {0, 5}

\* no repository, one, or two; no weekly report was generated yet
InitSparse ==
  /\ today = ReportDay0
  /\ \E n \in 0..2, p1 \in SparsePasts, p2 \in SparsePasts :
       /\ n < 2 => p2 = << >>
       /\ n < 1 => p1 = << >>
       /\ db = [EmptyDb EXCEPT
                  !.repositories =
                     take(<< repository_row(RepoRecord("a/B", None, 10)),
                             [repository_row(RecordC) EXCEPT !.language = NoneStr] >>, n),
                  !.repo_snapshots = past_rows(1, p1) \o past_rows(2, p2)]
  /\ pc = "idle"
  /\ run = NoRun
  /\ lastCall = NoCall
  /\ history = NoHistory
  /\ writers = << >>
  /\ trend = NoTrend
  /\ pipeline = NoPipeline
  /\ watch = NoWatch

\* ingestion stores today's star count of a repository
sparse_save_snapshot ==
  /\ Len(db.repo_snapshots) < MaxSparseSnapshots
  /\ \E repo_id \in Ids(db.repositories), stars \in SparseStars :
       db' = save_repo_snapshot(db, repo_id, stars, None, None).db
  /\ trend' = NoTrend
  /\ UNCHANGED <<today, pc, run, lastCall, history, writers, pipeline, watch>>

NextSparse ==
  \/ sparse_save_snapshot
  \/ call_generate_weekly_report
  \/ call_generate_monthly_report
  \/ call_generate_trend_report

SpecSparse == InitSparse /\ [][NextSparse]_vars

(***************************************************************************)
(* extract_github_repo_from_url called on texts                            *)
(***************************************************************************)
\* the parts a text is put together from: what precedes the domain, the domain,
\* an owner, a name, an extension, and what follows
TextHeads  == { << >>, <<"h","t","t","p","s",":","/","/">>, <<"s","e","e"," ">> }
TextHosts  == { HostPattern, <<"g","i","t","l","a","b",".","c","o","m","/">>,
                <<"G","i","t","H","u","b",".","c","o","m","/">>, << >> }
TextOwners == { <<"f","o","o">>, <<"A">>, << >> }
TextNames  == { <<"B","a","r">>, <<"b","-","1">>, <<"x",".","y">>, << >> }
TextExts   == Extensions \cup { << >>, <<".","G","I","T">>, <<".","p","y">>,
                                <<".","g","i","t",".","m","d">> }
TextTails  == { << >>, <<"/","t","r","e","e">>, <<"?","q">>,
                <<" ","g","i","t","h","u","b",".","c","o","m","/","c","/","d">> }

Texts ==
  {NoText} \cup
  { Text(h \o d \o o \o (IF o = << >> THEN << >> ELSE <<"/">>) \o n \o e \o t) :
      h \in TextHeads, d \in TextHosts, o \in TextOwners, n \in TextNames,
      e \in TextExts, t \in TextTails }

\* a text is given
InitExtract ==
  /\ today = 0
  /\ db = EmptyDb
  /\ pc = "idle"
  /\ run = NoRun
  /\ \E url \in Texts : lastCall = [NoCall EXCEPT !.args = url]
  /\ history = NoHistory
  /\ writers = << >>
  /\ trend = NoTrend
  /\ pipeline = NoPipeline
  /\ watch = NoWatch

call_extract_github_repo_from_url ==
  /\ lastCall.op = ""
  /\ lastCall' = [op |-> "extract_github_repo_from_url", args |-> lastCall.args,
                  ret |-> extract_repo(lastCall.args), err |-> "", before |-> << >>]
  /\ UNCHANGED <<today, db, pc, run, history, writers, trend, pipeline, watch>>

SpecExtract == InitExtract /\ [][call_extract_github_repo_from_url]_vars

(***************************************************************************)
(* Watched repositories: the two periodic jobs that read and write         *)
(* watched_repos.last_stars                                                *)
(***************************************************************************)
\* smart_notifications.py 25
MILESTONES == <<100, 500, 1000, 5000, 10000, 25000, 50000, 100000>>

MaxStarChanges == 3      \* times the star count on GitHub changes
MaxNotifications == 4    \* rows of smart_notifications

WatchedStars == {90, 120, 600}   \* the star counts GitHub reports
Chats == {"me", "you"}
WatchedRepo == "a/B"

\* watch.get("last_stars") or 0
or_0(x) == IF x = None THEN 0 ELSE x

InitWatch ==
  /\ today = 0
  /\ db = EmptyDb
  /\ pc = "idle"
  /\ run = NoRun
  /\ lastCall = NoCall
  /\ history = NoHistory
  /\ writers = << >>
  /\ trend = NoTrend
  /\ pipeline = NoPipeline
  /\ \E stars \in WatchedStars : watch = [NoWatch EXCEPT !.stars = stars]

Watching(chat_id) ==
  \E i \in Ids(db.watched_repos) : db.watched_repos[i].chat_id = chat_id

\* repo_watcher.py 70-92 and db.py 635-645: the watch row starts with the star
\* count of the moment; UNIQUE(chat_id, repo_url) refuses a second row
watch_repo ==
  /\ \E chat_id \in Chats :
       /\ ~Watching(chat_id)
       /\ db' = [db EXCEPT !.watched_repos =
                    Append(@, [chat_id |-> chat_id, repo_name |-> WatchedRepo,
                               last_stars |-> watch.stars])]
  /\ UNCHANGED <<today, pc, run, lastCall, history, writers, trend, pipeline, watch>>

\* people star and unstar the repository
star_change ==
  /\ watch.changes < MaxStarChanges
  /\ \E stars \in WatchedStars \ {watch.stars} :
       watch' = [watch EXCEPT
                   !.stars = stars,
                   !.changes = @ + 1,
                   !.crossed = @ \cup {<<chat_id, MILESTONES[k]>> :
                                         chat_id \in {c \in Chats : Watching(c)},
                                         k \in {x \in DOMAIN MILESTONES :
                                                   /\ watch.stars < MILESTONES[x]
                                                   /\ MILESTONES[x] <= stars}}]
  /\ UNCHANGED <<today, db, pc, run, lastCall, history, writers, trend, pipeline>>

\* repo_watcher.py 136-184, the job of scheduler.py 87-99: a "stars"
\* notification for a rise of 100 or more, and last_stars := current_stars for
\* every watch (db.py 675-687).  The job is a coroutine that calls check_all_watches without
\* awaiting inside it, so no other job runs in between.  (A watch whose GitHub
\* request fails is skipped and left as it is; the release column is left out.)
check_watched_repos ==
  /\ db.watched_repos # << >>
  /\ LET table == db.watched_repos
         rose  == SelectSeq([i \in Ids(table) |-> i],
                            LAMBDA i : watch.stars - or_0(table[i].last_stars) >= 100)
     IN  /\ db' = [db EXCEPT !.watched_repos =
                      [i \in Ids(table) |-> [table[i] EXCEPT !.last_stars = watch.stars]]]
         /\ watch' = [watch EXCEPT !.job = "check_watched_repos", !.sent =
                        [k \in DOMAIN rose |->
                           [chat_id |-> table[rose[k]].chat_id, type |-> "stars",
                            repo |-> table[rose[k]].repo_name, milestone |-> 0]]]
  /\ UNCHANGED <<today, pc, run, lastCall, history, writers, trend, pipeline>>

\* smart_notifications.py 47-59: the notifications of one watch
milestones_of(row, current_stars) ==
  LET reached == SelectSeq(MILESTONES,
                           LAMBDA m : or_0(row.last_stars) < m /\ m <= current_stars)
  IN  [k \in DOMAIN reached |->
         [chat_id |-> row.chat_id, type |-> "star_milestone", repo |-> row.repo_name,
          milestone |-> reached[k]]]

\* db.py 1071-1077: the message names the milestone
add_smart_notifications(table, notifications) ==
  table \o [k \in DOMAIN notifications |->
              [chat_id |-> notifications[k].chat_id,
               notification_type |-> notifications[k].type,
               repo_name |-> notifications[k].repo,
               milestone |-> notifications[k].milestone]]

\* smart_notifications.py 28-75 under the job of scheduler.py 102-114 (of
\* run_all_checks only check_star_milestones touches last_stars)
check_smart_notifications ==
  /\ db.watched_repos # << >>
  /\ LET table == db.watched_repos
         notifications == concat([i \in Ids(table) |-> milestones_of(table[i], watch.stars)])
     IN  /\ Len(db.smart_notifications) + Len(notifications) <= MaxNotifications
         /\ db' = [db EXCEPT
                     !.smart_notifications = add_smart_notifications(@, notifications),
                     !.watched_repos =
                        [i \in Ids(table) |->
                           IF watch.stars # or_0(table[i].last_stars)
                           THEN [table[i] EXCEPT !.last_stars = watch.stars]
                           ELSE table[i]]]
         /\ watch' = [watch EXCEPT !.job = "check_smart_notifications",
                                    !.sent = notifications]
  /\ UNCHANGED <<today, pc, run, lastCall, history, writers, trend, pipeline>>

NextWatch ==
  \/ watch_repo
  \/ star_change
  \/ check_watched_repos
  \/ check_smart_notifications

\* scheduler.py 221-235: both jobs are interval jobs, each runs again and again
SpecWatch ==
  InitWatch /\ [][NextWatch]_vars
    /\ WF_vars(check_watched_repos) /\ WF_vars(check_smart_notifications)

(***************************************************************************)
(* Properties                                                              *)
(***************************************************************************)
\* rows of a table that a predicate selects
SnapshotsOf(table, repo_id, day) ==
  {i \in Ids(table) : table[i].repo_id = repo_id /\ table[i].snapshot_date = day}

MentionsOf(table, a) ==
  {i \in Ids(table) : /\ table[i].repo_id = a.repo_id
                      /\ table[i].source_type = a.source_type
                      /\ table[i].source_id = a.source_id}

\* the run is in, or failed in, persist_github_repos
InPersistGithubRepos == run.repos # << >> /\ run.j = 0

\* the run persists a batch that an earlier run persisted completely today
RepeatsTodaysBatch ==
  /\ InPersistGithubRepos
  /\ run.day0 = today
  /\ \E h \in history.persisted : h.repos = run.repos /\ h.day0 = today /\ h.day = today

\* C1: persist_github_repos run again on the same day with the same batch
\* completes, and leaves one repository row per record and one snapshot row per
\* repository for the day.
C1_SameDayRepeatCompletes ==
  RepeatsTodaysBatch =>
    /\ pc # "failed"
    /\ pc = "hn_fetch" =>
         \A k \in Ids(run.repos) :
           LET rows == {i \in Ids(db.repositories) :
                          db.repositories[i].full_name = run.repos[k].name}
           IN  /\ Cardinality(rows) = 1
               /\ \A i \in rows : Cardinality(SnapshotsOf(db.repo_snapshots, i, today)) = 1

\* C2: the snapshot table holds at most one row per (repository, date), and
\* save_repo_snapshot for a repository that has a row for today overwrites that
\* row's stars, forks and open issues and adds no row.
C2_OneSnapshotPerDay ==
  /\ \A i, j \in Ids(db.repo_snapshots) :
       ( /\ db.repo_snapshots[i].repo_id = db.repo_snapshots[j].repo_id
         /\ db.repo_snapshots[i].snapshot_date = db.repo_snapshots[j].snapshot_date ) => i = j
  /\ (lastCall.op = "save_repo_snapshot" /\ lastCall.err = "") =>
       LET a == lastCall.args
       IN  /\ \E i \in SnapshotsOf(db.repo_snapshots, a.repo_id, today) :
                /\ db.repo_snapshots[i].stars = a.stars
                /\ db.repo_snapshots[i].forks = a.forks
                /\ db.repo_snapshots[i].open_issues = a.open_issues
           /\ Len(db.repo_snapshots) =
                IF SnapshotsOf(lastCall.before, a.repo_id, today) # {}
                THEN Len(lastCall.before) ELSE Len(lastCall.before) + 1

\* a snapshot of today was overwritten with other values
C2_Witness ==
  /\ lastCall.op = "save_repo_snapshot"
  /\ \E i \in SnapshotsOf(lastCall.before, lastCall.args.repo_id, today) :
       /\ lastCall.before[i].stars # lastCall.args.stars
       /\ lastCall.before[i].forks # lastCall.args.forks
       /\ db.repo_snapshots[i].stars = lastCall.args.stars

\* C3: upsert_repository of a record whose external id no stored row has, and
\* whose name a stored row has, updates that row and returns its id; it
\* inserts nothing and raises nothing.
C3_MatchedByNameSecond ==
  lastCall.op = "upsert_repository" =>
    LET a      == lastCall.args
        byId   == select_by_github_id(lastCall.before, a.github_id)
        byName == {i \in Ids(lastCall.before) : lastCall.before[i].full_name = a.name}
    IN  (byId = {} /\ byName # {}) =>
          /\ lastCall.err = ""
          /\ lastCall.ret \in byName
          /\ Len(db.repositories) = Len(lastCall.before)

\* the record the failed run was processing
FailedOnMalformedRecord ==
  /\ pc = "failed"
  /\ IF InPersistGithubRepos
     THEN ~well_formed_repo(run.repos[run.i])
     ELSE \/ run.items[run.j].title = NoneStr
          \/ run.items[run.j].url = NoneStr
RecordsRemain ==
  IF InPersistGithubRepos THEN run.i < Len(run.repos) ELSE run.j < Len(run.items)

\* C4: a record whose processing raises does not end persist_github_repos,
\* persist_hn_data or persist_reddit_data while records of the batch remain.
C4_BatchSurvivesBadRecord == ~(FailedOnMalformedRecord /\ RecordsRemain)

\* C5: no two mention rows share (repository, source, item), and
\* save_repo_mention for a stored triple leaves the mention table as it was.
C5_MentionsUnique ==
  /\ \A i, j \in Ids(db.repo_mentions) :
       ( /\ db.repo_mentions[i].repo_id = db.repo_mentions[j].repo_id
         /\ db.repo_mentions[i].source_type = db.repo_mentions[j].source_type
         /\ db.repo_mentions[i].source_id = db.repo_mentions[j].source_id ) => i = j
  /\ (lastCall.op = "save_repo_mention" /\ MentionsOf(lastCall.before, lastCall.args) # {})
       => db.repo_mentions = lastCall.before

\* in the first run, with no other caller, the body of a post matched the
\* repository that its URL had matched
C5_Witness ==
  /\ history.runs = 1 /\ history.calls = 0
  /\ lastCall.op = "save_repo_mention"
  /\ lastCall.args.source_type = "reddit"
  /\ MentionsOf(lastCall.before, lastCall.args) # {}
  /\ \E k \in Ids(run.items) :
       LET post == run.items[k]
           name == extract_github_repo_from_url(str(lower(chars(post.url))))
           x    == first_tracked_in(run.repo_id_map, post.selftext)
       IN  /\ post.url # NoneStr /\ post.selftext # NoneStr
           /\ db.reddit_posts[lastCall.args.source_id].reddit_id = post.id
           /\ name # NoneStr /\ dict_has(run.repo_id_map, name)
           /\ dict_get(run.repo_id_map, name) = lastCall.args.repo_id
           /\ x # 0 /\ run.repo_id_map[x].value = lastCall.args.repo_id

\* C6: two concurrent upsert_repository calls for the same repository, stored
\* by neither external id nor name before, both return the same id and leave
\* one row; neither raises.
C6_ConcurrentUpsertsAgree ==
  ( /\ \A w \in Writers : writers[w].pc \in {"done", "failed"}
    /\ writers[1].repo_data = writers[2].repo_data
    /\ writers[1].repo_data.github_id # None
    /\ ~writers[1].stored ) =>
      /\ \A w \in Writers : writers[w].pc = "done"
      /\ writers[1].ret = writers[2].ret
      /\ Cardinality({i \in Ids(db.repositories) :
                        db.repositories[i].full_name = writers[1].repo_data.name}) = 1

\* C7: a run over the records of a run that crashed earlier today does not fail.
C7_RerunAfterCrashSucceeds ==
  ~( /\ pc = "failed"
     /\ InPersistGithubRepos
     /\ run.day0 = today
     /\ \A k \in Ids(run.repos) : well_formed_repo(run.repos[k])
     /\ \E c \in history.crashed : c.repos = run.repos /\ c.day0 = today /\ c.day = today )

\* C8: no step changes or removes a snapshot row dated before today.
C8_PastSnapshotsUntouched ==
  [][ \A i \in Ids(db.repo_snapshots) :
        db.repo_snapshots[i].snapshot_date < today =>
          /\ i \in Ids(db'.repo_snapshots)
          /\ db'.repo_snapshots[i] = db.repo_snapshots[i] ]_vars

\* an ingestion step wrote today's snapshot of a repository that has a snapshot
\* of an earlier day with another star count
C8_Witness ==
  /\ lastCall.op = "save_repo_snapshot" /\ lastCall.err = ""
  /\ pc \notin Resting
  /\ \E i, j \in Ids(db.repo_snapshots) :
       /\ db.repo_snapshots[i].repo_id = lastCall.args.repo_id
       /\ db.repo_snapshots[j].repo_id = lastCall.args.repo_id
       /\ db.repo_snapshots[i].snapshot_date < today
       /\ db.repo_snapshots[j].snapshot_date = today
       /\ db.repo_snapshots[i].stars # db.repo_snapshots[j].stars

\* C9: classify_trend gives NEW without a baseline; else RISING when
\* growth_7d > 100 and acceleration > 0.2; else DECLINING when growth_7d < 0 or
\* acceleration < -0.5; else STEADY.  So 150 with 0.3 is RISING and a negative
\* growth_7d is DECLINING.
C9_Classification ==
  trend.op = "classify_trend" =>
    LET g == trend.growth_7d
        a == trend.growth_trend
        rising    == g > 100 /\ 5 * a.num > a.den
        declining == g < 0 \/ 2 * a.num < -a.den
    IN  /\ trend.stars_7d_ago = None => trend.result = "new"
        /\ (trend.stars_7d_ago # None /\ rising) => trend.result = "rising"
        /\ (trend.stars_7d_ago # None /\ ~rising /\ declining) => trend.result = "declining"
        /\ (trend.stars_7d_ago # None /\ ~rising /\ ~declining) => trend.result = "steady"
        /\ (trend.stars_7d_ago # None /\ g = 150 /\ a = Fraction(3, 10))
             => trend.result = "rising"
        /\ (trend.stars_7d_ago # None /\ g < 0) => trend.result = "declining"

\* classify_trend was called with growth 150, acceleration 0.3 and a baseline
C9_Witness ==
  /\ trend.op = "classify_trend"
  /\ trend.growth_7d = 150 /\ trend.growth_trend = Fraction(3, 10)
  /\ trend.stars_7d_ago = 1000
  /\ trend.result = "rising"

\* C10: a repository with a snapshot for today and none dated 7 or more days
\* before today is classified NEW by calculate_trend_metrics.
C10_NewWithoutBaseline ==
  trend.op = "calculate_trend_metrics" =>
    LET mine == {i \in Ids(db.repo_snapshots) : db.repo_snapshots[i].repo_id = trend.repo_id}
    IN  ( /\ \E i \in mine : db.repo_snapshots[i].snapshot_date = today
          /\ \A i \in mine : db.repo_snapshots[i].snapshot_date > today - 7 )
        => trend.result.status = "new"

\* the repository gained 400 stars in the 6 days it has been tracked, and is NEW
C10_Witness ==
  /\ trend.op = "calculate_trend_metrics"
  /\ trend.result.status = "new"
  /\ \A i \in Ids(db.repo_snapshots) : db.repo_snapshots[i].snapshot_date > today - 7
  /\ \E i, j \in Ids(db.repo_snapshots) :
       /\ db.repo_snapshots[i].snapshot_date = today - 6
       /\ db.repo_snapshots[j].snapshot_date = today
       /\ db.repo_snapshots[i].stars = 900
       /\ db.repo_snapshots[j].stars = 1300

(***************************************************************************)
(* C11: the acme/widget scenario                                           *)
(***************************************************************************)
\* the stars of the snapshot of a repository dated a given number of days ago
\* (None when there is none)
StarsOn(repo_id, age) ==
  LET hit == SnapshotsOf(db.repo_snapshots, repo_id, today - age)
  IN  IF hit = {} THEN None ELSE db.repo_snapshots[CHOOSE i \in hit : TRUE].stars

\* the mentions of a repository by one platform dated within the last 7 days
RecentMentions(repo_id, source_type) ==
  {i \in Ids(db.repo_mentions) : /\ db.repo_mentions[i].repo_id = repo_id
                                  /\ db.repo_mentions[i].source_type = source_type
                                  /\ today - db.repo_mentions[i].mention_date <= 7
                                  /\ db.repo_mentions[i].mention_date <= today}

WidgetScenario(repo_id) ==
  /\ StarsOn(repo_id, 14) = 900
  /\ StarsOn(repo_id, 7) = 1000
  /\ StarsOn(repo_id, 0) = 1300
  /\ Cardinality(RecentMentions(repo_id, "hn")) = 2
  /\ Cardinality(RecentMentions(repo_id, "reddit")) = 1

\* C11: with snapshots 900 (14 days ago), 1000 (7 days ago), 1300 (today) and
\* 2 HN mentions and 1 Reddit mention of the last 7 days, calculate_trend_metrics
\* yields growth_7d = 300, first-week growth 100, second-week growth 300,
\* acceleration 2.0, status RISING and total_mentions_7d = 3.
C11_WidgetScenario ==
  (trend.op = "calculate_trend_metrics" /\ WidgetScenario(trend.repo_id)) =>
    /\ trend.result.status = "rising"
    /\ trend.result.growth_7d = 300
    /\ trend.result.stars_7d_ago - trend.result.stars_14d_ago = 100
    /\ trend.result.current_stars - trend.result.stars_7d_ago = 300
    /\ trend.result.growth_trend.num = 2 * trend.result.growth_trend.den
    /\ trend.result.hn_mentions_7d = 2
    /\ trend.result.reddit_mentions_7d = 1
    /\ trend.result.total_mentions_7d = 3

\* the scenario with older mentions and other snapshots around it in the Store
C11_Witness ==
  /\ trend.op = "calculate_trend_metrics"
  /\ WidgetScenario(trend.repo_id)
  /\ StarsOn(trend.repo_id, 6) # None
  /\ Cardinality({i \in Ids(db.repo_mentions) : db.repo_mentions[i].repo_id = trend.repo_id}) = 5
  /\ trend.result.total_mentions_7d = 3

(***************************************************************************)
(* C12: the acceleration                                                   *)
(***************************************************************************)
\* the stars of the most recent snapshot of a repository dated at least the
\* given number of days before today (None when there is none)
Baseline(repo_id, days) ==
  LET table == db.repo_snapshots
      old   == {i \in Ids(table) : /\ table[i].repo_id = repo_id
                                    /\ today - table[i].snapshot_date >= days}
      last  == {i \in old : \A j \in old : table[j].snapshot_date <= table[i].snapshot_date}
  IN  IF old = {} THEN None ELSE table[CHOOSE i \in last : TRUE].stars

growth_firstWeek(repo_id)  == Baseline(repo_id, 7) - Baseline(repo_id, 14)
growth_secondWeek(repo_id) == StarsOn(repo_id, 0) - Baseline(repo_id, 7)

BothBaselines(repo_id) == Baseline(repo_id, 7) # None /\ Baseline(repo_id, 14) # None

TrendStatuses == {"new", "rising", "steady", "declining"}

\* C12 as stated: the growth_trend of the metrics returned is exactly
\* (growth_secondWeek - growth_firstWeek) / abs(growth_firstWeek) when both
\* baselines exist and growth_firstWeek is non-zero, and 0 in every other case.
C12_AccelerationExact ==
  (trend.op = "calculate_trend_metrics" /\ trend.result.status # "none") =>
    /\ trend.result.status \in TrendStatuses
    /\ IF BothBaselines(trend.repo_id) /\ growth_firstWeek(trend.repo_id) # 0
       THEN trend.result.growth_trend.num * abs(growth_firstWeek(trend.repo_id))
              = (growth_secondWeek(trend.repo_id) - growth_firstWeek(trend.repo_id))
                  * trend.result.growth_trend.den
       ELSE trend.result.growth_trend.num = 0

\* C12 as amended: the growth_trend returned is that quotient rounded to two
\* decimals (a multiple of 0.01 at most 0.005 away from it), and 0 in every other
\* case; the call returns metrics in every case (no division by zero).
C12_AccelerationRounded ==
  (trend.op = "calculate_trend_metrics" /\ trend.result.status # "none") =>
    /\ trend.result.status \in TrendStatuses
    /\ trend.result.growth_trend.den = 100
    /\ IF BothBaselines(trend.repo_id) /\ growth_firstWeek(trend.repo_id) # 0
       THEN 2 * abs(trend.result.growth_trend.num * abs(growth_firstWeek(trend.repo_id))
                    - 100 * (growth_secondWeek(trend.repo_id) - growth_firstWeek(trend.repo_id)))
              <= abs(growth_firstWeek(trend.repo_id))
       ELSE trend.result.growth_trend.num = 0

\* both baselines exist, the first week's growth is 900 and the second week's
\* is 100: the quotient -8/9 is returned as -0.89
C12_Witness ==
  /\ trend.op = "calculate_trend_metrics"
  /\ BothBaselines(trend.repo_id)
  /\ growth_firstWeek(trend.repo_id) = 900
  /\ growth_secondWeek(trend.repo_id) = 100
  /\ trend.result.growth_trend = Fraction(-89, 100)

(***************************************************************************)
(* C13 - C16: the Report Aggregator                                        *)
(***************************************************************************)
\* C13: every call of generate_weekly_report(scope), for a named scope and for
\* the global (null) scope alike, appends exactly one WeeklyReport row carrying
\* the payload it returns and leaves the rows stored before unchanged.
C13_WeeklyReportAppended ==
  trend.op = "generate_weekly_report" =>
    /\ Len(db.weekly_reports) = Len(trend.before) + 1
    /\ SubSeq(db.weekly_reports, 1, Len(trend.before)) = trend.before
    /\ db.weekly_reports[Len(db.weekly_reports)].chat_id = trend.chat_id
    /\ json_loads(db.weekly_reports[Len(db.weekly_reports)].report_data) = trend.result

\* the weekly reports persisted for a scope; the global scope reads every row
ReportsOf(chat_id) ==
  {i \in Ids(db.weekly_reports) : truthy(chat_id) => db.weekly_reports[i].chat_id = chat_id}

\* C14: with fewer than 2 persisted weekly reports for the scope (0 or exactly 1)
\* generate_monthly_report returns the insufficient-data marker ('message') and
\* no language or riser aggregates.
C14_MonthlyInsufficientData ==
  (trend.op = "generate_monthly_report" /\ Cardinality(ReportsOf(trend.chat_id)) < 2) =>
    /\ trend.result.message # NoneStr
    /\ trend.result.language_evolution = << >>
    /\ trend.result.monthly_rising_stars = << >>

\* the total growth of a language in the newest (latest = TRUE) or the oldest of
\* the reports considered that list it
GrowthIn(weekly_reports, lang, latest) ==
  LET listing == {w \in DOMAIN weekly_reports :
                    dict_has(weekly_reports[w].report_data.language_trends, lang)}
      pick == CHOOSE w \in listing :
                \A v \in listing :
                   IF latest THEN weekly_reports[v].week_start <= weekly_reports[w].week_start
                   ELSE weekly_reports[v].week_start >= weekly_reports[w].week_start
  IN  dict_get(weekly_reports[pick].report_data.language_trends, lang).total_growth

DistinctWeeks(weekly_reports) ==
  \A v, w \in DOMAIN weekly_reports :
     v # w => weekly_reports[v].week_start # weekly_reports[w].week_start

\* C15: in generate_monthly_report the trend of a language is 'rising' exactly
\* when its total growth in the newest of the considered weekly reports is
\* greater than in the oldest one, 'declining' exactly when it is smaller and
\* 'stable' when the two are equal.
C15_LanguageTrendDirection ==
  (trend.op = "generate_monthly_report" /\ DistinctWeeks(trend.weekly_reports)) =>
    \A e \in DOMAIN trend.result.language_evolution :
       LET lang   == trend.result.language_evolution[e].key
           newest == GrowthIn(trend.weekly_reports, lang, TRUE)
           oldest == GrowthIn(trend.weekly_reports, lang, FALSE)
       IN  trend.result.language_evolution[e].value.trend =
             (IF newest > oldest THEN "rising"
              ELSE IF newest < oldest THEN "declining" ELSE "stable")

\* the repositories that have at least one snapshot
WithSnapshots ==
  {r \in Ids(db.repositories) : \E k \in Ids(db.repo_snapshots) : db.repo_snapshots[k].repo_id = r}

\* C16: generate_weekly_report runs the Trend Engine for every repository that
\* has at least one snapshot: summary.total_repos is the number of those
\* repositories, the language counts sum to it and the language total_growth
\* values sum to total_stars_gained.
C16_EveryRepositoryCounted ==
  (trend.op = "generate_weekly_report" /\ WithSnapshots # {}) =>
    LET lt == trend.result.language_trends
    IN  /\ trend.result.summary.total_repos = Cardinality(WithSnapshots)
        /\ sum([e \in DOMAIN lt |-> lt[e].value.count]) = trend.result.summary.total_repos
        /\ sum([e \in DOMAIN lt |-> lt[e].value.total_growth])
              = trend.result.summary.total_stars_gained

(***************************************************************************)
(* C17: text-only mentions                                                 *)
(***************************************************************************)
\* the item carries no repository URL
NoRepoUrl(item) ==
  item.url # NoneStr /\ extract_github_repo_from_url(str(lower(chars(item.url)))) = NoneStr

\* the tracked repositories whose bare name occurs in the text, case-insensitively
NamedIn(text) ==
  {x \in Ids(run.repo_id_map) :
     contains(lower(chars(text)), lower(last_segment(chars(run.repo_id_map[x].key))))}

HnRow(story)     == {i \in Ids(db.hn_stories) : db.hn_stories[i].hn_id = story.id}
RedditRow(post)  == {i \in Ids(db.reddit_posts) : db.reddit_posts[i].reddit_id = post.id}

Linked(x, source_type, rows) ==
  \E k \in Ids(db.repo_mentions), i \in rows :
     /\ db.repo_mentions[k].repo_id = run.repo_id_map[x].value
     /\ db.repo_mentions[k].source_type = source_type
     /\ db.repo_mentions[k].source_id = i

\* C17: a discussion item without a repository URL whose text contains the bare
\* name of a tracked repository (case-insensitively) is matched: once
\* persist_hn_data / persist_reddit_data has returned, a mention row links that
\* repository to that item.
C17_TextMentionMatched ==
  /\ pc = "rd_fetch" =>
       \A j \in DOMAIN run.items :
          NoRepoUrl(run.items[j]) =>
            \A x \in NamedIn(run.items[j].title) : Linked(x, "hn", HnRow(run.items[j]))
  /\ pc = "done" =>
       \A j \in DOMAIN run.items :
          NoRepoUrl(run.items[j]) =>
            \A x \in NamedIn(run.items[j].selftext) :
               Linked(x, "reddit", RedditRow(run.items[j]))

(***************************************************************************)
(* C18: one Briefing row per generated report                              *)
(***************************************************************************)
\* the pipeline run has returned and it produced a report: the analyst approved
\* a draft of this run, which is now reports/final_report.md
ReportProduced ==
  pc = "pl_done" /\ pipeline.approved /\ pipeline.final = pipeline.draft /\ pipeline.draft # 0

\* C18: every generated report creates one Briefing row: after a pipeline run
\* (run_pipeline or run_daily_briefing) that produced a report, the number of
\* Briefing rows has grown by one and BriefingRepo rows link repositories of the
\* run to the new row.
C18_BriefingPerReport ==
  ReportProduced =>
    /\ Len(db.briefings) = pipeline.briefings0 + 1
    /\ \A k \in Ids(db.briefing_repos) :
          db.briefing_repos[k].briefing_id \in Ids(db.briefings)

(***************************************************************************)
(* C19: one row per platform id                                            *)
(***************************************************************************)
\* the row stored before the last call under the platform id the call names
StoredAs(key) == {i \in Ids(lastCall.before) : lastCall.before[i][key] = lastCall.args.id}

\* the last call re-saved a stored item: it returned the row's id, the row has the
\* new score, comment count and fetch time and its first title, URL and author,
\* and every other row is as it was
UpdatedInPlace(table, key) ==
  \A i \in StoredAs(key) :
     /\ lastCall.ret = i
     /\ Len(table) = Len(lastCall.before)
     /\ table[i].score = lastCall.args.score
     /\ table[i].comment_count = lastCall.args.comments
     /\ table[i].fetched_at = today
     /\ table[i].title = lastCall.before[i].title
     /\ table[i].url = lastCall.before[i].url
     /\ table[i].author = lastCall.before[i].author
     /\ \A j \in Ids(table) \ {i} : table[j] = lastCall.before[j]

\* C19: after any sequence of save_hn_story / save_reddit_post calls there is at
\* most one row per platform-native id on each platform; saving an item whose
\* platform id is already stored returns the id of the existing row and updates
\* its score, comment count and fetch time in place, while its title, URL and
\* author keep their first-saved values.
C19_OneRowPerPlatformId ==
  /\ \A i, j \in Ids(db.hn_stories) :
        db.hn_stories[i].hn_id = db.hn_stories[j].hn_id => i = j
  /\ \A i, j \in Ids(db.reddit_posts) :
        db.reddit_posts[i].reddit_id = db.reddit_posts[j].reddit_id => i = j
  /\ (lastCall.op = "save_hn_story" /\ lastCall.err = "") => UpdatedInPlace(db.hn_stories, "hn_id")
  /\ (lastCall.op = "save_reddit_post" /\ lastCall.err = "")
        => UpdatedInPlace(db.reddit_posts, "reddit_id")

\* a story stored on an earlier day is saved again with another title, URL,
\* author, score and comment count, next to a Reddit post already stored
C19_Witness ==
  /\ lastCall.op = "save_hn_story"
  /\ lastCall.err = ""
  /\ db.reddit_posts # << >>
  /\ \E i \in StoredAs("hn_id") :
        /\ lastCall.before[i].title # lastCall.args.title
        /\ lastCall.before[i].url # lastCall.args.url
        /\ lastCall.before[i].author # lastCall.args.author
        /\ lastCall.before[i].score # lastCall.args.score
        /\ lastCall.before[i].comment_count # lastCall.args.comments
        /\ lastCall.before[i].fetched_at # today

(***************************************************************************)
(* C20: the repositories table under upsert_repository                     *)
(***************************************************************************)
\* C20: after any sequence of upsert_repository calls, successful or failing, no
\* two repository rows share a canonical name, no two rows share a non-null
\* external id, and no row that once existed is removed (a call leaves every
\* earlier row in place, under its id and external id); a failing call leaves
\* the repository table unchanged.
C20_RepositoriesKeptUnique ==
  /\ \A i, j \in Ids(db.repositories) :
        i # j => /\ db.repositories[i].full_name # db.repositories[j].full_name
                 /\ \/ db.repositories[i].github_id = None
                    \/ db.repositories[i].github_id # db.repositories[j].github_id
  /\ lastCall.op = "upsert_repository" =>
        /\ Len(db.repositories) >= Len(lastCall.before)
        /\ \A i \in Ids(lastCall.before) :
              db.repositories[i].github_id = lastCall.before[i].github_id
        /\ lastCall.err # "" => db.repositories = lastCall.before

\* a call fails on a table that holds two repositories, one with an external id
C20_Witness ==
  /\ lastCall.op = "upsert_repository"
  /\ lastCall.err = "IntegrityError"
  /\ Len(lastCall.before) = 2
  /\ \E i \in Ids(lastCall.before) : lastCall.before[i].github_id # None

(***************************************************************************)
(* C21: deduplication by platform id                                       *)
(***************************************************************************)
\* the positions of records that carry an id no earlier record carries
Earliest(records) ==
  {i \in DOMAIN records :
     /\ records[i].id \notin {None, 0}
     /\ \A k \in 1..(i - 1) : records[k].id # records[i].id}

\* items is records reduced to the earliest record of each id, in input order
IsEarliestById(items, records) ==
  /\ Len(items) = Cardinality(Earliest(records))
  /\ \A j \in DOMAIN items :
        items[j] = records[CHOOSE i \in Earliest(records) :
                             Cardinality({k \in Earliest(records) : k <= i}) = j]

AllStories(hn_data) ==
  hn_data.top_stories \o hn_data.github_mentions \o hn_data.tech_discussions
AllPosts(reddit_data) ==
  reddit_data.top_posts \o reddit_data.github_mentions \o concat(reddit_data.by_subreddit)

\* the comments the items carry
RECURSIVE CommentsOf(_)
CommentsOf(items) ==
  IF items = << >> THEN 0 ELSE Len(Head(items).top_comments) + CommentsOf(Tail(items))

\* the first ingestion run on an empty Store
FirstRun == history.runs = 1 /\ history.crashed = {}

\* C21: persist_hn_data and persist_reddit_data deduplicate the concatenated
\* input lists by platform id keeping the first occurrence: the records they
\* process are the earliest record of each id, each is saved once with the field
\* values of that earliest record, and a later record with the same id causes no
\* save and no comment insert (on the first run the tables hold exactly one row
\* per distinct id and the comments of the earliest records).
C21_FirstOccurrenceSaved ==
  /\ pc \in {"hn_save", "hn_comments", "hn_mention", "rd_fetch"} =>
        \E hn_data \in HnInputs : IsEarliestById(run.items, AllStories(hn_data))
  /\ pc \in {"rd_save", "rd_comments", "rd_url", "rd_text"} =>
        \E reddit_data \in RedditInputs : IsEarliestById(run.items, AllPosts(reddit_data))
  /\ lastCall.op = "save_hn_story" =>
        /\ lastCall.args = run.items[run.j]
        /\ \A k \in 1..(run.j - 1) : run.items[k].id # lastCall.args.id
  /\ lastCall.op = "save_reddit_post" =>
        /\ lastCall.args = run.items[run.j]
        /\ \A k \in 1..(run.j - 1) : run.items[k].id # lastCall.args.id
  /\ (pc = "rd_fetch" /\ FirstRun) =>
        /\ Len(db.hn_stories) = Len(run.items)
        /\ \A j \in DOMAIN run.items :
              /\ db.hn_stories[j].hn_id = run.items[j].id
              /\ db.hn_stories[j].score = run.items[j].score
              /\ db.hn_stories[j].comment_count = run.items[j].comments
        /\ Len(db.hn_comments) = CommentsOf(run.items)
  /\ (pc = "done" /\ run.repos # << >> /\ FirstRun) =>
        /\ Len(db.reddit_posts) = Len(run.items)
        /\ \A j \in DOMAIN run.items :
              /\ db.reddit_posts[j].reddit_id = run.items[j].id
              /\ db.reddit_posts[j].score = run.items[j].score
              /\ db.reddit_posts[j].comment_count = run.items[j].comments
        /\ Len(db.reddit_comments) = CommentsOf(run.items)

\* persist_hn_data has returned on the first run for an input in which story 101
\* came twice, first with score 9 and a comment, then with score 5 and none
C21_Witness ==
  /\ pc = "rd_fetch"
  /\ FirstRun
  /\ \E hn_data \in HnInputs :
        /\ IsEarliestById(run.items, AllStories(hn_data))
        /\ Len(AllStories(hn_data)) > Len(run.items)
  /\ \E i \in Ids(db.hn_stories) : db.hn_stories[i].hn_id = 101 /\ db.hn_stories[i].score = 9
  /\ Len(db.hn_comments) = 1

(***************************************************************************)
(* C22: the lists of generate_trend_report                                 *)
(***************************************************************************)
\* the metrics of every stored repository that has them
Tracked ==
  {calculate_trend_metrics(db, i, db.repositories[i].full_name) : i \in Ids(db.repositories)}
    \ {NoMetrics}

WithStatus(tracked, status) == {m \in tracked : m.status = status}

\* list holds at most cap entries, each naming another repository of class
AtMostOf(list, cap, class) ==
  /\ Len(list) <= cap
  /\ Len(list) <= Cardinality(class)
  /\ \A i \in DOMAIN list : \E m \in class : m.repo_name = list[i].name
  /\ \A i, j \in DOMAIN list : list[i].name = list[j].name => i = j

NonIncreasing(list, field) ==
  \A i, j \in DOMAIN list : i < j => list[i][field] >= list[j][field]

\* the entries of list are the members of class with the largest value of field,
\* as many as cap allows
TheLargest(list, cap, class, field) ==
  /\ Len(list) = Min(cap, Cardinality(class))
  /\ \A m \in class :
        (\A i \in DOMAIN list : list[i].name # m.repo_name)
           => \A i \in DOMAIN list : list[i][field] >= m[field]

RisingListed(list, rising) ==
  /\ AtMostOf(list, 5, rising)
  /\ NonIncreasing(list, "growth_7d")
  /\ TheLargest(list, 5, rising, "growth_7d")

ListsBoundedAndOrdered(r, tracked) ==
  /\ RisingListed(r.rising_stars, WithStatus(tracked, "rising"))
  /\ AtMostOf(r.steady_performers, 5, WithStatus(tracked, "steady"))
  /\ NonIncreasing(r.steady_performers, "current_stars")
  /\ AtMostOf(r.cooling_down, 3, WithStatus(tracked, "declining"))
  /\ \A i, j \in DOMAIN r.cooling_down :
        i < j => r.cooling_down[i].growth_7d <= r.cooling_down[j].growth_7d
  /\ AtMostOf(r.most_discussed, 5, tracked)
  /\ NonIncreasing(r.most_discussed, "total_mentions_7d")
  /\ AtMostOf(r.newcomers, 5, WithStatus(tracked, "new"))
  /\ AtMostOf(r.repeat_performers, 3, {m \in tracked : m.times_featured > 1})

\* C22: generate_trend_report returns rising_stars with at most 5 repositories,
\* all RISING, in non-increasing growth_7d order, the ones with the largest
\* growth; steady_performers with at most 5 STEADY ones by non-increasing current
\* stars; cooling_down with at most 3 DECLINING ones by non-decreasing growth_7d;
\* most_discussed with at most 5 by non-increasing total mentions; newcomers with
\* at most 5 NEW ones; repeat_performers with at most 3 repositories featured
\* more than once.
C22_TrendReportLists ==
  trend.op = "generate_trend_report" => ListsBoundedAndOrdered(trend.result, Tracked)

\* six RISING repositories of two different growths were tracked in an order
\* that is not the order of growth: one of the slower ones is cut off
C22_Witness ==
  /\ trend.op = "generate_trend_report"
  /\ Len(db.repositories) = 6
  /\ trend.result.summary_stats.total_repos_tracked = 6
  /\ Len(trend.result.rising_stars) = 5
  /\ Cardinality(WithStatus(Tracked, "rising")) = 6
  /\ trend.result.rising_stars[1].name # "r1"
  /\ trend.result.rising_stars[1].growth_7d > trend.result.rising_stars[5].growth_7d

(***************************************************************************)
(* C23: consistent risers                                                  *)
(***************************************************************************)
\* the reports, among those given, that list the repository as rising
ListedIn(weekly_reports, name) ==
  {w \in DOMAIN weekly_reports :
     \E e \in DOMAIN weekly_reports[w].report_data.rising_stars :
        weekly_reports[w].report_data.rising_stars[e].name = name}

\* the reports given are the (at most 4) most recent ones stored for the scope
MostRecentOf(weekly_reports, chat_id) ==
  LET given == {weekly_reports[w].id : w \in DOMAIN weekly_reports}
  IN  /\ given \subseteq ReportsOf(chat_id)
      /\ Cardinality(given) = Len(weekly_reports)
      /\ Len(weekly_reports) = Min(4, Cardinality(ReportsOf(chat_id)))
      /\ \A i \in ReportsOf(chat_id) \ given, w \in DOMAIN weekly_reports :
            db.weekly_reports[i].week_start <= weekly_reports[w].week_start

\* every entry names another repository listed as rising in at least 2 of the
\* reports, with the number of reports that list it, most appearances first
ConsistentRisers(list, weekly_reports) ==
  /\ \A i \in DOMAIN list :
        /\ list[i].weeks_rising = Cardinality(ListedIn(weekly_reports, list[i].name))
        /\ list[i].weeks_rising >= 2
  /\ \A i, j \in DOMAIN list : list[i].name = list[j].name => i = j
  /\ \A i, j \in DOMAIN list : i < j => list[i].weeks_rising >= list[j].weeks_rising

Consistent(weekly_reports) ==
  {name \in {RiserNames[k] : k \in DOMAIN RiserNames} :
     Cardinality(ListedIn(weekly_reports, name)) >= 2}

MultiRowTable ==
  [save_repo_topics |-> "repo_topics", save_repo_files |-> "repo_files",
   save_hn_comments |-> "hn_comments", save_reddit_comments |-> "reddit_comments"]

IsPrefix(s, t) == Len(s) <= Len(t) /\ SubSeq(t, 1, Len(s)) = s

\* C24: each Store write call is atomic: when a multi-row save call
\* (save_repo_topics, save_repo_files, save_hn_comments, save_reddit_comments)
\* fails after writing some of its rows, none of that call's rows are persisted,
\* and the rows written by earlier completed calls are unaffected, by a failed
\* call as by a completed one.
C24_MultiRowSaveAtomic ==
  lastCall.op \in DOMAIN MultiRowTable =>
    /\ lastCall.err # "" => db = lastCall.before
    /\ \A t \in DOMAIN EmptyDb :
          IF t = MultiRowTable[lastCall.op]
          THEN IsPrefix(lastCall.before[t], db[t])
          ELSE db[t] = lastCall.before[t]

\* a save_hn_comments call whose second comment is no dict fails after its
\* first row was inserted, with a row of an earlier call in the table
C24_Witness ==
  /\ lastCall.op = "save_hn_comments"
  /\ lastCall.err = "AttributeError"
  /\ lastCall.args.id = 1
  /\ Len(lastCall.args.rows) >= 2
  /\ lastCall.args.rows[1] = "a"
  /\ lastCall.args.rows[2] = NotADict
  /\ Len(lastCall.before.hn_comments) > 0
  /\ db.hn_comments = lastCall.before.hn_comments

(***************************************************************************)
(* C25: no exception on insufficient data                                  *)
(***************************************************************************)
\* the quotients a report carries
WeeklyQuotients(r) ==
  (IF "avg_growth" \in DOMAIN r.summary THEN {r.summary.avg_growth} ELSE {})
    \cup {r.language_trends[i].value.avg_growth : i \in DOMAIN r.language_trends}
    \cup {r.rising_stars[i].growth_pct : i \in DOMAIN r.rising_stars}
    \cup {r.declining_repos[i].growth_pct : i \in DOMAIN r.declining_repos}

MonthlyQuotients(r) ==
  {r.language_evolution[i].value.avg_weekly_growth : i \in DOMAIN r.language_evolution}
    \cup {r.weekly_summaries[i].avg_growth : i \in DOMAIN r.weekly_summaries}

ItemQuotients(list) ==
  {list[i].growth_7d_pct : i \in DOMAIN list} \cup {list[i].growth_trend : i \in DOMAIN list}

TrendQuotients(r) ==
  {r.summary_stats.avg_star_growth}
    \cup ItemQuotients(r.rising_stars) \cup ItemQuotients(r.steady_performers)
    \cup ItemQuotients(r.cooling_down) \cup ItemQuotients(r.newcomers)
    \cup ItemQuotients(r.repeat_performers)

Divided(quotients) == \A q \in quotients : q.den > 0

\* the repositories with a snapshot of today, the ones that have metrics
HaveMetrics ==
  {i \in Ids(db.repositories) :
     \E k \in Ids(db.repo_snapshots) :
        db.repo_snapshots[k].repo_id = i /\ db.repo_snapshots[k].snapshot_date = today}

WeeklyReturned(r) ==
  /\ {"rising_stars", "declining_repos", "language_trends", "summary", "insights"}
        \subseteq DOMAIN r
  /\ Divided(WeeklyQuotients(r))
  /\ HaveMetrics = {} =>
        /\ r.rising_stars = << >> /\ r.declining_repos = << >> /\ r.language_trends = << >>
        /\ \/ "message" \in DOMAIN r.summary
           \/ r.summary.avg_growth = Zero

MonthlyReturned(r, weekly_reports) ==
  /\ {"weekly_summaries", "monthly_rising_stars", "language_evolution"} \subseteq DOMAIN r
  /\ Divided(MonthlyQuotients(r))
  /\ weekly_reports = << >> =>
        /\ r.message = "not enough data"
        /\ r.weekly_summaries = << >> /\ r.monthly_rising_stars = << >>
        /\ r.language_evolution = << >>
  /\ Len(weekly_reports) = 1 => r.monthly_rising_stars = << >>

TrendReturned(r) ==
  /\ {"rising_stars", "steady_performers", "cooling_down", "newcomers", "summary_stats"}
        \subseteq DOMAIN r
  /\ Divided(TrendQuotients(r))
  /\ HaveMetrics = {} =>
        /\ r.rising_stars = << >> /\ r.steady_performers = << >> /\ r.cooling_down = << >>
        /\ r.newcomers = << >>
        /\ r.summary_stats.avg_star_growth = Zero

\* C25: the Trend Engine and the Report Aggregator never raise on insufficient
\* data: for every Store state (no repositories, repositories with a single
\* snapshot, a 7-day baseline of 0 stars, repositories without a snapshot of
\* today, an empty or one-element weekly-report history) generate_trend_report,
\* generate_weekly_report and generate_monthly_report return a result value
\* (empty lists, zero averages, or an insufficient-data message) and no
\* quotient of theirs has a divisor of 0.
C25_NoRaiseOnInsufficientData ==
  /\ trend.op = "generate_weekly_report" => WeeklyReturned(trend.result)
  /\ trend.op = "generate_monthly_report" => MonthlyReturned(trend.result, trend.weekly_reports)
  /\ trend.op = "generate_trend_report" => TrendReturned(trend.result)

\* a weekly report over a Store whose only snapshots are older than today: the
\* repositories are read, none has metrics, and the average is a zero
C25_Witness ==
  /\ trend.op = "generate_weekly_report"
  /\ db.repo_snapshots # << >>
  /\ HaveMetrics = {}
  /\ "message" \notin DOMAIN trend.result.summary
  /\ trend.result.summary.total_repos = 0
  /\ trend.result.summary.avg_growth = Zero

(***************************************************************************)
(* C26: the repository a URL names                                         *)
(***************************************************************************)
\* cs[a..b] is a non-empty run of characters of an owner or a name that ends
\* where the text ends or another character follows
IsRun(cs, a, b) ==
  /\ a <= b /\ b <= Len(cs)
  /\ \A i \in a..b : cs[i] \in RepoChars
  /\ b = Len(cs) \/ cs[b + 1] \notin RepoChars

\* the domain stands at p, followed by owner/name up to position b
SegmentAt(cs, p, b) ==
  /\ p + Len(HostPattern) <= Len(cs)
  /\ SubSeq(cs, p, p + Len(HostPattern) - 1) = HostPattern
  /\ \E m \in (p + Len(HostPattern))..Len(cs) :
        /\ IsRun(cs, p + Len(HostPattern), m)
        /\ m + 1 <= Len(cs) /\ cs[m + 1] = "/"
        /\ IsRun(cs, m + 2, b)

Segments(cs) == {x \in (1..Len(cs)) \X (1..Len(cs)) : SegmentAt(cs, x[1], x[2])}

IsLowerCased(cs) == \A i \in DOMAIN cs : \A u \in DOMAIN UpperLetters : cs[i] # UpperLetters[u]

\* repo is the segment lower-cased, without one trailing extension if it has one
NamedBy(repo, segment) ==
  /\ IsLowerCased(repo)
  /\ \E e \in Extensions \cup {<< >>} :
        /\ Len(segment) = Len(repo) + Len(e)
        /\ SubSeq(segment, Len(repo) + 1, Len(segment)) = e
        /\ \A i \in DOMAIN repo :
              \/ repo[i] = segment[i]
              \/ \E u \in DOMAIN UpperLetters :
                    segment[i] = UpperLetters[u] /\ repo[i] = LowerLetters[u]
        /\ e = << >> => \A x \in Extensions : ~ends_with(segment, x)

TheExample ==
  Text(<<"h","t","t","p","s",":","/","/","g","i","t","h","u","b",".","c","o","m","/",
         "f","o","o","/","B","a","r",".","g","i","t">>)

\* C26: extract_github_repo_from_url returns the owner/name segment following
\* the hosting domain, lower-cased and with one trailing .git, .md, .htm or
\* .html extension removed: for "https://github.com/foo/Bar.git" it returns
\* "foo/bar"; for an empty or null text, or a text without a hosting URL, it
\* returns none.
C26_RepoOfUrl ==
  lastCall.op = "extract_github_repo_from_url" =>
    LET url  == lastCall.args
        repo == lastCall.ret
        segs == Segments(url.chars)
    IN  /\ (url.none \/ url.chars = << >> \/ segs = {}) => repo = NoText
        /\ segs # {} =>
              LET first == CHOOSE x \in segs : \A y \in segs : x[1] <= y[1]
              IN  /\ ~repo.none
                  /\ NamedBy(repo.chars,
                             SubSeq(url.chars, first[1] + Len(HostPattern), first[2]))
        /\ url = TheExample => repo = Text(<<"f","o","o","/","b","a","r">>)

\* the example of the claim
C26_Witness ==
  /\ lastCall.op = "extract_github_repo_from_url"
  /\ lastCall.args = TheExample
  /\ lastCall.ret = Text(<<"f","o","o","/","b","a","r">>)

(***************************************************************************)
(* C27: no RISING without two weeks of history                             *)
(***************************************************************************)
\* the snapshots of a repository dated at least the given number of days
\* before today, and the most recent of them
SnapshotsBefore(repo_id, days) ==
  {k \in Ids(db.repo_snapshots) :
     /\ db.repo_snapshots[k].repo_id = repo_id
     /\ db.repo_snapshots[k].snapshot_date <= today - days}

MostRecent(rows) ==
  CHOOSE k \in rows :
    \A j \in rows : db.repo_snapshots[j].snapshot_date <= db.repo_snapshots[k].snapshot_date

NoFortnight(repo_id) == SnapshotsBefore(repo_id, 14) = {}

SameBaselineRow(repo_id) ==
  /\ SnapshotsBefore(repo_id, 14) # {}
  /\ MostRecent(SnapshotsBefore(repo_id, 7)) = MostRecent(SnapshotsBefore(repo_id, 14))

\* C27: a repository that has no snapshot dated 14 or more days before today is
\* never classified RISING by calculate_trend_metrics, however large its 7-day
\* growth: its acceleration is 0.  The same holds when the most recent snapshot
\* dated at least 7 days ago is also the most recent one dated at least 14 days
\* ago.
C27_NoRisingWithoutFortnight ==
  (/\ trend.op = "calculate_trend_metrics"
   /\ trend.result # NoMetrics
   /\ NoFortnight(trend.repo_id) \/ SameBaselineRow(trend.repo_id))
    => /\ trend.result.status # "rising"
       /\ trend.result.growth_trend.num = 0

\* 1000 stars gained in the last 7 days, over a snapshot of 8 days ago that is
\* the oldest one: not rising
C27_Witness ==
  /\ trend.op = "calculate_trend_metrics"
  /\ NoFortnight(trend.repo_id)
  /\ SnapshotsBefore(trend.repo_id, 7) # {}
  /\ trend.result # NoMetrics
  /\ trend.result.growth_7d >= 1000
  /\ trend.result.status = "steady"

(***************************************************************************)
(* C28: what a mention row refers to                                       *)
(***************************************************************************)
MentionPhases == {"hn_mention", "rd_url", "rd_text"}

MappedIds == {run.repo_id_map[x].value : x \in Ids(run.repo_id_map)}

\* the row refers to a repository of the current run's map and to the item the
\* iteration saved, and both rows are stored
RefersToCurrent(row) ==
  /\ row.repo_id \in MappedIds
  /\ row.repo_id \in Ids(db.repositories)
  /\ row.source_id = run.item_id
  /\ row.source_type = (IF pc = "hn_mention" THEN "hn" ELSE "reddit")
  /\ IF pc = "hn_mention"
     THEN /\ row.source_id \in Ids(db.hn_stories)
          /\ db.hn_stories[row.source_id].hn_id = run.items[run.j].id
     ELSE /\ row.source_id \in Ids(db.reddit_posts)
          /\ db.reddit_posts[row.source_id].reddit_id = run.items[run.j].id

Returned == pipeline.returned \in {"True", "False"}

\* the writer ran once per verdict and once more if it is at work; no verdict
\* but the last one given is other than revise
LoopBounded ==
  /\ pipeline.writer_runs <= MAX_LOOPS
  /\ Len(pipeline.verdicts) <= pipeline.writer_runs
  /\ pipeline.writer_runs <= Len(pipeline.verdicts) + 1
  /\ \A i \in DOMAIN pipeline.verdicts :
        pipeline.verdicts[i] # "revise" => pipeline.writer_runs = i

ReturnedAsJudged ==
  Returned =>
    /\ pipeline.writer_runs >= 1
    /\ Len(pipeline.verdicts) = pipeline.writer_runs
    /\ pipeline.verdicts[Len(pipeline.verdicts)] = "revise"
          => pipeline.writer_runs = MAX_LOOPS
    /\ pipeline.returned = "True"
          <=> \E i \in DOMAIN pipeline.verdicts : pipeline.verdicts[i] = "approved"

\* C29: run_pipeline, once the collector has returned, terminates for every
\* sequence of analyst verdicts (it returns, or an agent call raises): the
\* writer runs at least once and at most 3 times (MAX_LOOPS), it is never run
\* again after an 'approved' verdict or an error verdict, a 'revise' verdict
\* leads to another writer run only while fewer than 3 runs were made, and the
\* function returns True exactly when some analyst verdict was 'approved'.
C29_PipelineTerminates ==
  /\ [](pipeline.entry = "run_pipeline" => LoopBounded /\ ReturnedAsJudged)
  /\ (pipeline.entry = "run_pipeline" /\ pc = "done") ~> (pc \in {"pl_done", "failed"})

\* three revise verdicts: the writer ran three times and run_pipeline
\* returned False
C29_Witness ==
  /\ pipeline.entry = "run_pipeline"
  /\ pipeline.returned = "False"
  /\ pipeline.verdicts = <<"revise", "revise", "revise">>
  /\ pipeline.writer_runs = 3

(***************************************************************************)
(* C30: star milestones                                                    *)
(***************************************************************************)
Notified(chat_id, milestone) ==
  {i \in Ids(db.smart_notifications) :
     /\ db.smart_notifications[i].notification_type = "star_milestone"
     /\ db.smart_notifications[i].chat_id = chat_id
     /\ db.smart_notifications[i].repo_name = WatchedRepo
     /\ db.smart_notifications[i].milestone = milestone}

Milestones == {MILESTONES[k] : k \in DOMAIN MILESTONES}

\* C30: when the star count of a watched repository rises from below a
\* milestone of MILESTONES to at or above it, a star_milestone notification
\* for that milestone and that chat is eventually produced by
\* check_star_milestones, under every interleaving of the two periodic jobs
\* check_watched_repos and check_smart_notifications, which both read and
\* overwrite the same last_stars field of the watch row; and no milestone is
\* notified twice for the same watch.
C30_MilestoneNotifiedOnce ==
  /\ \A chat_id \in Chats, m \in Milestones :
        (<<chat_id, m>> \in watch.crossed) ~> (Notified(chat_id, m) # {})
  /\ [](\A chat_id \in Chats, m \in Milestones : Cardinality(Notified(chat_id, m)) <= 1)

====
